---- MODULE Spec2Model ----
(***************************************************************************)
(* A model of the classification and aggregation core of the application   *)
(* usage dashboard: EnhancedClassificationService (name normalisation, the *)
(* exact / fuzzy / keyword / vendor cascade, its memo cache and            *)
(* updateDefinitions), DataProcessingService.loadFlexeraData and           *)
(* _groupFlexeraData, and buildNestedStructure.                            *)
(*                                                                         *)
(* JavaScript strings are TLA+ strings (Len, SubSeq and \o act on them).   *)
(* JavaScript numbers that are quotients are kept as exact fractions       *)
(* <<numerator, denominator>>: <<0, 0>> is NaN and <<k, 0>> with k > 0 is  *)
(* Infinity, and comparisons are done by cross-multiplication.             *)
(***************************************************************************)
EXTENDS Integers, Sequences, FiniteSets, TLC

(***************************************************************************)
(* Strings                                                                 *)
(***************************************************************************)

CharAt(s, i) == SubSeq(s, i, i)

UpperChars == "ABCDEFGHIJKLMNOPQRSTUVWXYZ"

LowerChars == "abcdefghijklmnopqrstuvwxyz"

DigitChars == "0123456789"

(* String.prototype.toLowerCase on one character. *)
ToLowerChar(c) ==
  IF \E i \in 1..Len(UpperChars) : CharAt(UpperChars, i) = c
  THEN CharAt(LowerChars, CHOOSE i \in 1..Len(UpperChars) : CharAt(UpperChars, i) = c)
  ELSE c

(* The character class [a-z0-9]. *)
IsAlnumChar(c) ==
  \/ \E i \in 1..Len(LowerChars) : CharAt(LowerChars, i) = c
  \/ \E i \in 1..Len(DigitChars) : CharAt(DigitChars, i) = c

(* String.prototype.includes *)
Includes(s, t) ==
  \E i \in 0..(Len(s) - Len(t)) : SubSeq(s, i + 1, i + Len(t)) = t

(* String.prototype.startsWith *)
StartsWith(s, t) == Len(t) <= Len(s) /\ SubSeq(s, 1, Len(t)) = t

RECURSIVE TrimLeft(_)
TrimLeft(s) ==
  IF s # "" /\ CharAt(s, 1) = " " THEN TrimLeft(SubSeq(s, 2, Len(s))) ELSE s

RECURSIVE TrimRight(_)
TrimRight(s) ==
  IF s # "" /\ CharAt(s, Len(s)) = " " THEN TrimRight(SubSeq(s, 1, Len(s) - 1)) ELSE s

(* String.prototype.trim; the only white space of the modelled alphabet is
   the space character. *)
Trim(s) == TrimRight(TrimLeft(s))

(* String.prototype.split(sep) for a one-character separator: the pieces
   between the separators, empty pieces included ("" splits to <<"">>). *)
RECURSIVE SplitFrom(_, _, _, _)
SplitFrom(s, sep, start, i) ==
  IF i > Len(s) THEN << SubSeq(s, start, Len(s)) >>
  ELSE IF CharAt(s, i) = sep
       THEN << SubSeq(s, start, i - 1) >> \o SplitFrom(s, sep, i + 1, i + 1)
       ELSE SplitFrom(s, sep, start, i + 1)

Split(s, sep) == SplitFrom(s, sep, 1, 1)

(* name.toLowerCase().replace(/[^a-z0-9]/g, ' ') *)
RECURSIVE LowerAlnum(_, _)
LowerAlnum(s, i) ==
  IF i > Len(s) THEN ""
  ELSE LET c == ToLowerChar(CharAt(s, i))
       IN (IF IsAlnumChar(c) THEN c ELSE " ") \o LowerAlnum(s, i + 1)

(* .replace(/\s+/g, ' ') on a string whose only white space is the space. *)
RECURSIVE CollapseSpaces(_, _)
CollapseSpaces(s, i) ==
  IF i > Len(s) THEN ""
  ELSE IF CharAt(s, i) = " " /\ i > 1 /\ CharAt(s, i - 1) = " "
       THEN CollapseSpaces(s, i + 1)
       ELSE CharAt(s, i) \o CollapseSpaces(s, i + 1)

(* A normalizeName that trims before it replaces the other characters. *)
normalizeNameTrimFirst(name) ==
  IF name = "" THEN ""
  ELSE CollapseSpaces(LowerAlnum(Trim(name), 1), 1)

(* normalizeName; a null or undefined name is modelled by "", which the
   guard !name treats alike. *)
normalizeName(name) ==
  IF name = "" THEN ""
  ELSE Trim(CollapseSpaces(LowerAlnum(name, 1), 1))

(***************************************************************************)
(* Optional values (null) and fractions                                    *)
(***************************************************************************)

None == [some |-> FALSE, val |-> ""]

Some(v) == [some |-> TRUE, val |-> v]

(* JavaScript truthiness of a string-or-null: null and "" are falsy. *)
Truthy(o) == o.some /\ o.val # ""

NaN == << 0, 0 >>

IsNaN(a) == a[1] = 0 /\ a[2] = 0

RECURSIVE Gcd(_, _)
Gcd(a, b) == IF b = 0 THEN a ELSE Gcd(b, a % b)

(* n / d as a fraction in lowest terms (0/0 is NaN, k/0 is Infinity). *)
Frac(n, d) ==
  IF n = 0 /\ d = 0 THEN NaN
  ELSE LET g == Gcd(n, d) IN << n \div g, d \div g >>

(* a > b on numbers; false when either side is NaN. *)
Gt(a, b) == ~IsNaN(a) /\ ~IsNaN(b) /\ a[1] * b[2] > b[1] * a[2]

(* Math.max and Math.min of two numbers; NaN if either is NaN. *)
MathMax(a, b) == IF IsNaN(a) \/ IsNaN(b) THEN NaN ELSE IF Gt(b, a) THEN b ELSE a

MathMin(a, b) == IF IsNaN(a) \/ IsNaN(b) THEN NaN ELSE IF Gt(a, b) THEN b ELSE a

(* The list of known vendor prefixes, in the order extractVendor tries them. *)
vendorPrefixes ==
  << "microsoft", "ms ", "adobe", "autodesk", "ibm", "oracle", "sap", "google", "atlassian",
     "salesforce", "vmware", "cisco", "siemens", "bentley", "dassault", "ptc", "hexagon",
     "aveva", "ansys", "tableau", "symantec", "mcafee", "kaspersky", "trend micro", "sophos",
     "avast" >>

(* The curated vendor -> path overrides, in the order they are laid over the
   derived map. *)
explicitMappings ==
  << << "microsoft", "Infrastructure Software > MS Applications" >>,
     << "ms", "Infrastructure Software > MS Applications" >>,
     << "office", "Infrastructure Software > MS Applications" >>,
     << "excel", "Infrastructure Software > MS Applications" >>,
     << "word", "Infrastructure Software > MS Applications" >>,
     << "powerpoint", "Infrastructure Software > MS Applications" >>,
     << "outlook", "Infrastructure Software > MS Applications" >>,
     << "teams", "Infrastructure Software > MS Applications" >>,
     << "onedrive", "Infrastructure Software > MS Applications" >>,
     << "sharepoint", "Infrastructure Software > MS Applications" >>,
     << "skype", "Infrastructure Software > MS Applications" >>,
     << "windows", "Infrastructure Software > Operating Systems" >>,
     << "adobe", "Engineering Software > Design Tools" >>,
     << "photoshop", "Engineering Software > Design Tools" >>,
     << "illustrator", "Engineering Software > Design Tools" >>,
     << "indesign", "Engineering Software > Design Tools" >>,
     << "acrobat", "Infrastructure Software > Document Management" >>,
     << "autocad", "Engineering Software > CAD Tools" >>,
     << "solidworks", "Engineering Software > CAD Tools" >>,
     << "ansys", "Engineering Software > Simulation" >>,
     << "matlab", "Engineering Software > Simulation" >>,
     << "siemens", "Engineering Software > PLM" >>,
     << "ptc", "Engineering Software > PLM" >>,
     << "sql", "Infrastructure Software > Database" >>,
     << "oracle", "Infrastructure Software > Database" >>,
     << "tableau", "Infrastructure Software > Business Intelligence" >>,
     << "power bi", "Infrastructure Software > Business Intelligence" >>,
     << "antivirus", "Infrastructure Software > Security" >>,
     << "vpn", "Infrastructure Software > Security" >>,
     << "firewall", "Infrastructure Software > Security" >>,
     << "symantec", "Infrastructure Software > Security" >>,
     << "mcafee", "Infrastructure Software > Security" >>,
     << "zoom", "Infrastructure Software > Communication" >>,
     << "slack", "Infrastructure Software > Communication" >>,
     << "webex", "Infrastructure Software > Communication" >>,
     << "chrome", "Infrastructure Software > Web Browsers" >>,
     << "firefox", "Infrastructure Software > Web Browsers" >>,
     << "edge", "Infrastructure Software > Web Browsers" >>,
     << "safari", "Infrastructure Software > Web Browsers" >>,
     << "jira", "Infrastructure Software > Project Management" >>,
     << "asana", "Infrastructure Software > Project Management" >>,
     << "trello", "Infrastructure Software > Project Management" >>,
     << "atlassian", "Infrastructure Software > Project Management" >>,
     << "sap", "ERP > SAP" >>,
     << "salesforce", "CRM > Salesforce" >>,
     << "dynamics", "ERP > Microsoft Dynamics" >> >>

(* The curated keyword table, in the key order Object.entries enumerates. *)
BuildKeywordMappings ==
  << [groupPath |-> "Infrastructure Software > MS Applications",
      keywords  |-> << "microsoft", "ms", "office", "excel", "word", "powerpoint", "outlook",
                    "teams", "onedrive", "sharepoint", "skype", "visio", "access", "onenote" >>],
     [groupPath |-> "Infrastructure Software > Operating Systems",
      keywords  |-> << "windows", "linux", "ubuntu", "redhat", "centos", "macos", "os",
                    "operating system" >>],
     [groupPath |-> "Infrastructure Software > Database",
      keywords  |-> << "sql", "oracle", "db", "database", "mysql", "postgresql", "mongodb",
                    "mariadb", "nosql", "data warehouse" >>],
     [groupPath |-> "Infrastructure Software > Web Browsers",
      keywords  |-> << "chrome", "firefox", "edge", "safari", "opera", "browser",
                    "internet explorer" >>],
     [groupPath |-> "Infrastructure Software > Business Intelligence",
      keywords  |-> << "bi", "tableau", "power bi", "qlik", "looker", "analytics", "dashboard",
                    "reporting", "data visualization" >>],
     [groupPath |-> "Infrastructure Software > Security",
      keywords  |-> << "antivirus", "vpn", "firewall", "security", "encryption", "malware",
                    "protection", "endpoint", "symantec", "mcafee" >>],
     [groupPath |-> "Infrastructure Software > Communication",
      keywords  |-> << "zoom", "slack", "webex", "chat", "meeting", "conference", "video",
                    "voip", "voice", "call" >>],
     [groupPath |-> "Infrastructure Software > Document Management",
      keywords  |-> << "pdf", "acrobat", "document", "reader", "writer", "editor", "ocr",
                    "scanner" >>],
     [groupPath |-> "Infrastructure Software > Project Management",
      keywords  |-> << "jira", "asana", "trello", "project", "task", "kanban", "scrum", "agile",
                    "portfolio", "planning" >>],
     [groupPath |-> "Engineering Software > CAD Tools",
      keywords  |-> << "cad", "autocad", "solidworks", "inventor", "revit", "fusion", "drawing",
                    "3d", "modeling", "design" >>],
     [groupPath |-> "Engineering Software > Simulation",
      keywords  |-> << "simulation", "ansys", "abaqus", "nastran", "fea", "cfd", "fem",
                    "matlab", "simulink", "analysis" >>],
     [groupPath |-> "Engineering Software > PLM",
      keywords  |-> << "plm", "pdm", "teamcenter", "windchill", "enovia", "product lifecycle",
                    "data management", "siemens", "ptc" >>],
     [groupPath |-> "Engineering Software > Design Tools",
      keywords  |-> << "design", "adobe", "photoshop", "illustrator", "indesign", "xd",
                    "creative cloud", "sketching" >>],
     [groupPath |-> "ERP > SAP",
      keywords  |-> << "sap", "erp", "resource planning", "hana", "fiori" >>],
     [groupPath |-> "ERP > Microsoft Dynamics",
      keywords  |-> << "dynamics", "ax", "nav", "crm", "erp", "microsoft" >>],
     [groupPath |-> "CRM > Salesforce",
      keywords  |-> << "salesforce", "crm", "customer relationship", "sales cloud",
                    "service cloud", "marketing cloud" >>] >>

(***************************************************************************)
(* extractVendor                                                           *)
(***************************************************************************)

(* normalized.match(/ by ([\w\s]+)/): the text after the first " by " that
   is followed by at least one character (every character of a normalised
   name is in [\w\s], so the group runs to the end of the string). *)
ByVendorMatch(normalized) ==
  LET hits == { i \in 1..(Len(normalized) - 4) : SubSeq(normalized, i, i + 3) = " by " }
  IN IF hits = {} THEN None
     ELSE LET i == CHOOSE j \in hits : \A k \in hits : j <= k
          IN Some(SubSeq(normalized, i + 4, Len(normalized)))

RECURSIVE VendorPrefixLoop(_, _)
VendorPrefixLoop(normalized, i) ==
  IF i > Len(vendorPrefixes) THEN None
  ELSE IF StartsWith(normalized, vendorPrefixes[i]) THEN Some(Trim(vendorPrefixes[i]))
  ELSE IF ByVendorMatch(normalized).some THEN Some(Trim(ByVendorMatch(normalized).val))
  ELSE VendorPrefixLoop(normalized, i + 1)

extractVendor(appName) ==
  LET normalized == normalizeName(appName)
      fromPrefix == VendorPrefixLoop(normalized, 1)
      firstWord  == Split(normalized, " ")[1]
  IN IF fromPrefix.some THEN fromPrefix
     ELSE IF firstWord # "" /\ Len(firstWord) > 2 THEN Some(firstWord)
     ELSE None

(***************************************************************************)
(* Taxonomy traversal.  A node is [name, members, children]; an absent     *)
(* members or children field is the empty sequence, which every traversal  *)
(* treats the same way.  A definitions object is [hasGroups, groups]:      *)
(* hasGroups is FALSE for an object without a groups list, on which every  *)
(* traversal throws a TypeError.                                           *)
(***************************************************************************)

JoinPath(parentPath, name) ==
  IF parentPath # "" THEN parentPath \o " > " \o name ELSE name

(* The (path, member) pairs in the order the depth-first traversals visit
   them: a node's members, then its children, then its next sibling; leaf
   tells whether the node has no children. *)
RECURSIVE MemberPairs(_, _)
MemberPairs(nodes, parentPath) ==
  IF nodes = << >> THEN << >>
  ELSE LET node        == Head(nodes)
           currentPath == JoinPath(parentPath, node.name)
       IN [i \in 1..Len(node.members) |->
             [path |-> currentPath, member |-> node.members[i], leaf |-> node.children = << >>]]
          \o MemberPairs(node.children, currentPath)
          \o MemberPairs(Tail(nodes), parentPath)

(* The paths of all nodes of the taxonomy. *)
RECURSIVE NodePaths(_, _)
NodePaths(nodes, parentPath) ==
  IF nodes = << >> THEN {}
  ELSE LET currentPath == JoinPath(parentPath, Head(nodes).name)
       IN {currentPath} \cup NodePaths(Head(nodes).children, currentPath)
                        \cup NodePaths(Tail(nodes), parentPath)

(* A findExactMatch that looks at the members of the given nodes only and
   never at their children. *)
RECURSIVE findExactMatchTopLevel(_, _, _)
findExactMatchTopLevel(nodes, parentPath, normalizedSoftware) ==
  IF nodes = << >> THEN None
  ELSE IF \E i \in 1..Len(Head(nodes).members) :
            normalizedSoftware = normalizeName(Head(nodes).members[i])
  THEN Some(JoinPath(parentPath, Head(nodes).name))
  ELSE findExactMatchTopLevel(Tail(nodes), parentPath, normalizedSoftware)

(* findExactMatch: the first node listing a member whose normalised form is
   the input; a child match that is falsy (an empty path) is passed over. *)
RECURSIVE findExactMatch(_, _, _)
findExactMatch(nodes, parentPath, normalizedSoftware) ==
  IF nodes = << >> THEN None
  ELSE LET node        == Head(nodes)
           currentPath == JoinPath(parentPath, node.name)
       IN IF \E i \in 1..Len(node.members) :
               normalizedSoftware = normalizeName(node.members[i])
          THEN Some(currentPath)
          ELSE LET childMatch == findExactMatch(node.children, currentPath, normalizedSoftware)
               IN IF Truthy(childMatch) THEN childMatch
                  ELSE findExactMatch(Tail(nodes), parentPath, normalizedSoftware)

FindExactMatchInDefinitions(defs, normalizedSoftware) ==
  findExactMatch(defs.groups, "", normalizedSoftware)

(* str.split(' ').filter(word => word.length > 1), as a set *)
WordSet(str) ==
  LET words == Split(str, " ")
  IN { words[i] : i \in { j \in 1..Len(words) : Len(words[j]) > 1 } }

CalculateSimilarityScore(str1, str2) ==
  LET set1 == WordSet(str1)
      set2 == WordSet(str2)
      jaccardSimilarity == Frac(Cardinality(set1 \cap set2), Cardinality(set1 \cup set2))
  IN IF Includes(str1, str2) \/ Includes(str2, str1)
     THEN MathMax(jaccardSimilarity, << 7, 10 >>)
     ELSE jaccardSimilarity

(* A loop that keeps (best, highestScore), starts from (null, 0) and replaces
   both whenever a scored candidate has score > highestScore ends with the
   greatest score above 0 and the first candidate that attains it (a NaN
   score never replaces anything).  scored is the sequence of the candidates'
   [hit, score]; the result is the index of the winner, or 0 for none. *)
BestIndex(scored) ==
  LET live == { i \in 1..Len(scored) : scored[i].hit /\ Gt(scored[i].score, << 0, 1 >>) }
      top  == { i \in live : \A j \in live : ~Gt(scored[j].score, scored[i].score) }
  IN IF top = {} THEN 0 ELSE CHOOSE i \in top : \A j \in top : i <= j

(* A fuzzy tier that scores every (path, member) pair. *)
FuzzyScoredAllPairs(pairs, normalizedSoftware) ==
  [i \in 1..Len(pairs) |->
     [hit   |-> TRUE,
      score |-> CalculateSimilarityScore(normalizedSoftware, normalizeName(pairs[i].member))]]

(* _findFuzzyMatchInDefinitions: every (path, member) pair in which one
   normalised string contains the other is scored. *)
FuzzyScored(pairs, normalizedSoftware) ==
  [i \in 1..Len(pairs) |->
     LET normalizedMember == normalizeName(pairs[i].member)
     IN [hit   |-> Includes(normalizedSoftware, normalizedMember)
                   \/ Includes(normalizedMember, normalizedSoftware),
         score |-> CalculateSimilarityScore(normalizedSoftware, normalizedMember)]]

FindFuzzyMatchInDefinitions(defs, normalizedSoftware) ==
  LET pairs  == MemberPairs(defs.groups, "")
      scored == FuzzyScored(pairs, normalizedSoftware) @@ << >>   \* tabulated once
      best   == BestIndex(scored)
  IN IF best # 0 /\ Gt(scored[best].score, << 1, 2 >>) THEN Some(pairs[best].path) ELSE None

(* The keywords of the whole table in enumeration order, each with its path. *)
RECURSIVE KeywordPairs(_, _)
KeywordPairs(keywordMap, g) ==
  IF g > Len(keywordMap) THEN << >>
  ELSE [k \in 1..Len(keywordMap[g].keywords) |->
          [groupPath |-> keywordMap[g].groupPath,
           keyword   |-> keywordMap[g].keywords[k]]]
       \o KeywordPairs(keywordMap, g + 1)

(* _findKeywordMatch: a keyword is scored when the input contains it or,
   if it is longer than 3 characters, when it contains the input. *)
KeywordScored(pairs, normalizedSoftware) ==
  [i \in 1..Len(pairs) |->
     [hit   |-> Includes(normalizedSoftware, pairs[i].keyword)
                \/ (Len(pairs[i].keyword) > 3 /\ Includes(pairs[i].keyword, normalizedSoftware)),
      score |-> Frac(Len(pairs[i].keyword), Len(normalizedSoftware))]]

FindKeywordMatch(keywordMap, normalizedSoftware) ==
  LET pairs  == KeywordPairs(keywordMap, 1)
      scored == KeywordScored(pairs, normalizedSoftware) @@ << >>   \* tabulated once
      best   == BestIndex(scored)
  IN IF best # 0 /\ Gt(scored[best].score, << 1, 5 >>) THEN Some(pairs[best].groupPath) ELSE None

(***************************************************************************)
(* Maps (JavaScript Map / object used as a dictionary)                     *)
(***************************************************************************)

EmptyMap == [k \in {} |-> ""]

MapSet(m, k, v) == [x \in (DOMAIN m) \cup {k} |-> IF x = k THEN v ELSE m[x]]

MapHas(m, k) == k \in DOMAIN m

RECURSIVE DerivedVendors(_, _)
DerivedVendors(pairs, i) ==
  IF i = 0 THEN EmptyMap
  ELSE LET before == DerivedVendors(pairs, i - 1)
           vendor == extractVendor(pairs[i].member)
       IN IF Truthy(vendor) THEN MapSet(before, vendor.val, pairs[i].path) ELSE before

(* The explicit mappings laid over a map: vendorMap.set for each entry in
   order (the keys of the table are distinct). *)
LayExplicit(vendorMap) ==
  LET keys == { explicitMappings[i][1] : i \in 1..Len(explicitMappings) }
  IN [v \in (DOMAIN vendorMap) \cup keys |->
        IF v \in keys
        THEN explicitMappings[CHOOSE i \in 1..Len(explicitMappings) :
                                explicitMappings[i][1] = v][2]
        ELSE vendorMap[v]]

(* _buildVendorMappings over a definitions object that has a groups list *)
BuildVendorMappings(defs) ==
  LET pairs == MemberPairs(defs.groups, "")
  IN LayExplicit(DerivedVendors(pairs, Len(pairs)))


(***************************************************************************)
(* The classification cascade and the confidence score                     *)
(***************************************************************************)

Unclassified == "Unclassified"

(* What the tiers compute for a name over definitions that have a groups
   list: the normalised name, the result of _findExactMatchInDefinitions,
   of _findFuzzyMatchInDefinitions and of _findKeywordMatch, and the vendor
   extractVendor reads off the raw name.  The tiers are pure, so the order
   in which findGroupForSoftware and getClassificationConfidence evaluate
   them does not show. *)
Tiers(defs, keywordMap, softwareName) ==
  LET normalizedSoftware == normalizeName(softwareName)
  IN [normalized |-> normalizedSoftware,
      exact      |-> FindExactMatchInDefinitions(defs, normalizedSoftware),
      fuzzy      |-> FindFuzzyMatchInDefinitions(defs, normalizedSoftware),
      keyword    |-> FindKeywordMatch(keywordMap, normalizedSoftware),
      vendor     |-> extractVendor(softwareName)]

(* Lines 238-275 of findGroupForSoftware, the cascade run on a memo miss:
   the path it returns (and memoizes), given the tiers' results. *)
Cascade(tiers, vendorMap, fallbackToKeywords, fallbackToVendor) ==
  IF Truthy(tiers.exact) THEN tiers.exact.val
  ELSE IF Truthy(tiers.fuzzy) THEN tiers.fuzzy.val
  ELSE IF fallbackToKeywords /\ Truthy(tiers.keyword) THEN tiers.keyword.val
  ELSE IF fallbackToVendor /\ Truthy(tiers.vendor) /\ MapHas(vendorMap, tiers.vendor.val)
  THEN vendorMap[tiers.vendor.val]
  ELSE Unclassified

(* The keyword loop of getClassificationConfidence: the greatest
   min(0.7, keyword.length / name.length) over the keywords of groupPath
   that the normalised name contains, or 0 when there is none. *)
KeywordMatchScore(keywordMap, normalizedSoftware, groupPath) ==
  LET entries == { g \in 1..Len(keywordMap) : keywordMap[g].groupPath = groupPath }
      scores  == UNION { { MathMin(<< 7, 10 >>,
                                   Frac(Len(keywordMap[g].keywords[k]), Len(normalizedSoftware))) :
                             k \in { j \in 1..Len(keywordMap[g].keywords) :
                                       Includes(normalizedSoftware, keywordMap[g].keywords[j]) } } :
                         g \in entries } \cup { << 0, 1 >> }
  IN CHOOSE s \in scores : \A u \in scores : ~Gt(u, s)

(* A score that does not tell a fuzzy match from an exact one. *)
ConfidenceFuzzyAsExact(tiers, vendorMap, keywordMap, groupPath) ==
  IF tiers.exact = Some(groupPath) \/ tiers.fuzzy = Some(groupPath) THEN << 1, 1 >>
  ELSE KeywordMatchScore(keywordMap, tiers.normalized, groupPath)

(* Lines 407-438 of getClassificationConfidence: the score of a path that
   is not the sentinel, given the tiers' results. *)
Confidence(tiers, vendorMap, keywordMap, groupPath) ==
  LET keywordMatchScore == KeywordMatchScore(keywordMap, tiers.normalized, groupPath)
  IN IF tiers.exact = Some(groupPath) THEN << 1, 1 >>
     ELSE IF tiers.fuzzy = Some(groupPath) THEN << 4, 5 >>
     ELSE IF Truthy(tiers.vendor) /\ MapHas(vendorMap, tiers.vendor.val)
             /\ vendorMap[tiers.vendor.val] = groupPath
     THEN MathMax(<< 3, 5 >>, keywordMatchScore)
     ELSE keywordMatchScore

(***************************************************************************)
(* The inputs the model draws from                                         *)
(***************************************************************************)

Leaf(name, members) == [name |-> name, members |-> members, children |-> << >>]

Branch(name, members, children) == [name |-> name, members |-> members, children |-> children]

Definitions(groups) == [hasGroups |-> TRUE, groups |-> groups]

(* One leaf, Infrastructure Software > MS Applications. *)
TaxonomyMS ==
  Definitions(<< Branch("Infrastructure Software", << >>,
                   << Leaf("MS Applications", << "Microsoft Excel", "Microsoft Word" >>) >>) >>)

(* A member listed under two leaves, a node with both members and children,
   a three-level path and a member whose vendor is not in the curated table. *)
TaxonomyDeep ==
  Definitions(<< Branch("Engineering Software", << >>,
                   << Branch("CAD Tools", << "AutoCAD" >>,
                        << Leaf("Viewers", << "DWG TrueView", "Microsoft Excel" >>) >>) >>),
                 Branch("Infrastructure Software", << >>,
                   << Leaf("MS Applications", << "Microsoft Excel" >>),
                      Leaf("Security", << "Norton Security" >>) >>) >>)

(* A top-level node named like the sentinel and a top-level node with an
   empty name. *)
TaxonomyOdd ==
  Definitions(<< Leaf("Unclassified", << "Legacy Tool" >>),
                 Branch("Infrastructure Software", << >>,
                   << Leaf("MS Applications", << "Microsoft Word" >>) >>),
                 Leaf("", << "Ghost App" >>) >>)

(* A definitions object without a groups list. *)
NoGroups == [hasGroups |-> FALSE, groups |-> << >>]

Taxonomies == { TaxonomyMS, TaxonomyDeep, TaxonomyOdd }

(* The names handed to the service. *)
Names ==
  { "", "Microsoft Excel", "microsoft  excel", "Microsoft Excel 365 Professional",
    "zzqq123", "Data", "Google Chrome", "Legacy Tool", "Legacy Tool 2",
    "Norton Utilities Premium Edition", "Ghost App", "!!!", "Excel Microsoft" }

(* The values of the "Application - Product" column of an inventory row. *)
RowNames == { "", " Microsoft Excel ", "Data" }

(* The (fallbackToKeywords, fallbackToVendor) pairs a caller passes: the
   defaults, and both fallbacks switched off. *)
FallbackFlags == { << TRUE, TRUE >>, << FALSE, FALSE >> }

(* The path a caller asks a confidence for, besides the one the service
   assigned to the name. *)
AskedPaths == { "Infrastructure Software > MS Applications" }

(* The longest inventory batch and the number of service calls explored. *)
MaxRows == 2

MaxCalls == 2

(***************************************************************************)
(* The tiers tabulated once over the inputs above.  TiersOf is Tiers: it   *)
(* reads the table where the arguments are tabulated and computes the      *)
(* tiers otherwise.                                                        *)
(***************************************************************************)

TableNames == Names \cup { Trim(r) : r \in RowNames }

TiersTable ==
  [d \in Taxonomies |-> [n \in TableNames |-> Tiers(d, BuildKeywordMappings, n)]]

TiersOf(defs, keywordMap, softwareName) ==
  IF defs \in Taxonomies /\ softwareName \in TableNames /\ keywordMap = BuildKeywordMappings
  THEN TiersTable[defs][softwareName]
  ELSE Tiers(defs, keywordMap, softwareName)

VendorMapTable == [d \in Taxonomies |-> BuildVendorMappings(d)]

BuildVendorMappingsOf(defs) ==
  IF defs \in Taxonomies THEN VendorMapTable[defs] ELSE BuildVendorMappings(defs)

(***************************************************************************)
(* findGroupForSoftware and getClassificationConfidence, as functions of   *)
(* the service's fields.  A result is [threw, ret, cache, readCache]:      *)
(* threw is TRUE when the call ends in a TypeError (the definitions object *)
(* has no groups list to traverse), cache is the memo cache after the      *)
(* call and readCache tells whether the call consulted it.                 *)
(***************************************************************************)

(* A findGroupForSoftware without the guard on an empty name. *)
FindGroupForSoftwareUnguarded(defs, vendorMap, keywordMap, memo, softwareName, fallbackToKeywords, fallbackToVendor) ==
  IF MapHas(memo, softwareName)
  THEN [threw |-> FALSE, ret |-> memo[softwareName], cache |-> memo, readCache |-> TRUE]
  ELSE IF ~defs.hasGroups
  THEN [threw |-> TRUE, ret |-> "TypeError", cache |-> memo, readCache |-> TRUE]
  ELSE [threw |-> FALSE,
        ret   |-> Cascade(TiersOf(defs, keywordMap, softwareName), vendorMap,
                          fallbackToKeywords, fallbackToVendor),
        cache |-> MapSet(memo, softwareName,
                         Cascade(TiersOf(defs, keywordMap, softwareName), vendorMap,
                                 fallbackToKeywords, fallbackToVendor)),
        readCache |-> TRUE]

FindGroupForSoftware(defs, vendorMap, keywordMap, memo, softwareName, fallbackToKeywords, fallbackToVendor) ==
  IF softwareName = ""
  THEN [threw |-> FALSE, ret |-> Unclassified, cache |-> memo, readCache |-> FALSE]
  ELSE IF MapHas(memo, softwareName)
  THEN [threw |-> FALSE, ret |-> memo[softwareName], cache |-> memo, readCache |-> TRUE]
  ELSE IF ~defs.hasGroups
  THEN [threw |-> TRUE, ret |-> "TypeError", cache |-> memo, readCache |-> TRUE]
  ELSE LET path == Cascade(TiersOf(defs, keywordMap, softwareName), vendorMap,
                           fallbackToKeywords, fallbackToVendor)
       IN [threw |-> FALSE, ret |-> path,
           cache |-> MapSet(memo, softwareName, path), readCache |-> TRUE]

(* A result is [threw, ret]: ret is the confidence as a fraction. *)
GetClassificationConfidence(defs, vendorMap, keywordMap, softwareName, groupPath) ==
  IF groupPath = Unclassified THEN [threw |-> FALSE, ret |-> << 0, 1 >>]
  ELSE IF ~defs.hasGroups THEN [threw |-> TRUE, ret |-> NaN]
  ELSE [threw |-> FALSE,
        ret   |-> Confidence(TiersOf(defs, keywordMap, softwareName), vendorMap,
                             keywordMap, groupPath)]

(* Lines 132-136 of loadFlexeraData: the row with its groupPath and
   classificationConfidence, appended to the rows enriched before it. *)
EnrichedRow(enriched, product, found, confidence) ==
  IF found.threw \/ confidence.threw
  THEN [threw |-> TRUE, items |-> << >>, cache |-> found.cache]
  ELSE [threw |-> FALSE,
        items |-> Append(enriched.items,
                         [product |-> product, groupPath |-> found.ret,
                          classificationConfidence |-> confidence.ret]),
        cache |-> found.cache]

(* A row whose confidence is computed after the definitions were switched
   to another taxonomy. *)
ScoreRowAfterSwitch(defs, vendorMap, keywordMap, enriched, product, softwareName, found) ==
  EnrichedRow(enriched, product, found,
              GetClassificationConfidence(
                IF defs = TaxonomyDeep THEN TaxonomyMS ELSE TaxonomyDeep,
                BuildVendorMappingsOf(IF defs = TaxonomyDeep THEN TaxonomyMS ELSE TaxonomyDeep),
                keywordMap, softwareName, found.ret))

(* Lines 129-131: the confidence of the path just assigned. *)
ScoreRow(defs, vendorMap, keywordMap, enriched, product, softwareName, found) ==
  EnrichedRow(enriched, product, found,
              GetClassificationConfidence(defs, vendorMap, keywordMap, softwareName, found.ret))

(* Lines 125-127: the trimmed product name, classified with the default
   flags by _assignGroupToItem. *)
ClassifyRow(defs, vendorMap, keywordMap, enriched, product, softwareName) ==
  ScoreRow(defs, vendorMap, keywordMap, enriched, product, softwareName,
           FindGroupForSoftware(defs, vendorMap, keywordMap, enriched.cache,
                                softwareName, TRUE, TRUE))

(* The map callback on one row.  enriched is [threw, items, cache], the
   outcome of the rows before it; product is the row's "Application -
   Product" value ("" for an absent one).  When a classification throws,
   the batch is abandoned. *)
EnrichRow(defs, vendorMap, keywordMap, enriched, product) ==
  IF enriched.threw THEN enriched
  ELSE ClassifyRow(defs, vendorMap, keywordMap, enriched, product, Trim(product))

(* results.data.map(...) over the first n rows, through the same service. *)
RECURSIVE EnrichRows(_, _, _, _, _, _)
EnrichRows(defs, vendorMap, keywordMap, memo, rows, n) ==
  IF n = 0 THEN [threw |-> FALSE, items |-> << >>, cache |-> memo]
  ELSE EnrichRow(defs, vendorMap, keywordMap,
                 EnrichRows(defs, vendorMap, keywordMap, memo, rows, n - 1), rows[n])

(***************************************************************************)
(* _groupFlexeraData and processData.  A classified record is              *)
(* [product, user, lastUsed, ubcCost, groupPath]: the "Application -       *)
(* Product", "Assigned user - Email" and "Installations - Last used date"  *)
(* columns ("" for an absent one), the number parseFloat(item.ubcCost) || 0 *)
(* and the assigned path.  An object whose keys are strings is a sequence  *)
(* of entries in insertion order.                                          *)
(***************************************************************************)

(* The indices at which a key occurs for the first time. *)
FirstOccurrences(keys) ==
  SelectSeq([i \in 1..Len(keys) |-> i], LAMBDA i : \A j \in 1..(i - 1) : keys[j] # keys[i])

(* The distinct keys in the order of their first occurrence. *)
KeysInOrder(keys) ==
  LET first == FirstOccurrences(keys)
  IN [k \in 1..Len(first) |-> keys[first[k]]]

(* item.groupPath || "Unclassified" *)
GroupKey(item) == IF item.groupPath # "" THEN item.groupPath ELSE Unclassified

(* A non-blank last-used date. *)
Used(item) == Trim(item.lastUsed) # ""

DistinctUsers(items) == Cardinality({ items[i].user : i \in 1..Len(items) })

(* The used records counted one by one, not by user. *)
UsedRecords(items) == Cardinality({ j \in 1..Len(items) : Used(items[j]) })

DistinctActiveUsers(items) ==
  Cardinality({ items[i].user : i \in { j \in 1..Len(items) : Used(items[j]) } })

(* The mapValues callback of _groupFlexeraData.  The average confidence it
   also stores is read by nothing modelled here and is left out; the
   metrics have no totalCost and no totalUBCCost field. *)
GroupData(group) ==
  [metrics |-> [uniqueUsers        |-> DistinctUsers(group),
                activeUsers        |-> DistinctActiveUsers(group),
                totalInstallations |-> Len(group)],
   items   |-> group]

GroupFlexeraData(data) ==
  LET names == KeysInOrder([i \in 1..Len(data) |-> GroupKey(data[i])])
  IN [k \in 1..Len(names) |->
        [groupName |-> names[k],
         groupData |-> GroupData(SelectSeq(data, LAMBDA item : GroupKey(item) = names[k]))]]

(* processData without DSC data: structure[groupName] = {flexeraData, ...};
   the dscData and comparison parts are read by nothing modelled here.  A
   group object has no metrics and no items of its own. *)
ProcessedStructure(data) ==
  LET grouped == GroupFlexeraData(data)
  IN [k \in 1..Len(grouped) |->
        [path     |-> grouped[k].groupName,
         groupObj |-> [hasMetrics |-> FALSE, hasItems |-> FALSE,
                       flexeraData |-> grouped[k].groupData]]]

(***************************************************************************)
(* buildNestedStructure.  The tree under construction is [nodes, heap,     *)
(* appsByBusinessUnit]: nodes maps the segment path of a node (root[unit]  *)
(* is << unit >>) to its __meta, whose applications list holds references  *)
(* (indices into heap) to application objects, so that an object reachable *)
(* from two lists is one object.                                           *)
(***************************************************************************)

(* fullPath.split('>').map(s => s.trim()) *)
Segments(fullPath) ==
  LET parts == Split(fullPath, ">")
  IN [i \in 1..Len(parts) |-> Trim(parts[i])]

NewNode(unit) ==
  [metrics      |-> [uniqueUsers |-> 0, activeUsers |-> 0, totalInstallations |-> 0,
                     businessUnit |-> unit, totalCost |-> 0, totalUBCCost |-> 0],
   items        |-> << >>,
   applications |-> << >>]

(* metrics.field || 0 *)
MetricOr0(metrics, field) == IF field \in DOMAIN metrics THEN metrics[field] ELSE 0

(* groupObj.metrics || groupObj.flexeraData?.metrics || {} *)
MetricsOf(groupObj) ==
  IF groupObj.hasMetrics THEN groupObj.metrics ELSE groupObj.flexeraData.metrics

(* groupObj.items || [] *)
ItemsOf(groupObj) == IF groupObj.hasItems THEN groupObj.items ELSE << >>

(* The five += on the metrics of a node. *)
AddMetrics(node, metrics) ==
  [node EXCEPT
     !.metrics.uniqueUsers        = @ + MetricOr0(metrics, "uniqueUsers"),
     !.metrics.activeUsers        = @ + MetricOr0(metrics, "activeUsers"),
     !.metrics.totalInstallations = @ + MetricOr0(metrics, "totalInstallations"),
     !.metrics.totalCost          = @ + MetricOr0(metrics, "totalCost"),
     !.metrics.totalUBCCost       = @ + MetricOr0(metrics, "totalUBCCost")]

(* item["Application - Product"] || "Unclassified" *)
AppName(item) == IF item.product # "" THEN item.product ELSE Unclassified

RECURSIVE SumUbcCost(_, _)
SumUbcCost(items, n) == IF n = 0 THEN 0 ELSE SumUbcCost(items, n - 1) + items[n].ubcCost

(* Lines 60-81: the application object of one application of a group. *)
NewApplication(appName, items, businessUnit, groupObj) ==
  [name         |-> appName,
   users        |-> DistinctUsers(items),
   activeUsers  |-> DistinctActiveUsers(items),
   accesses     |-> Len(items),
   businessUnit |-> businessUnit,
   totalCost    |-> MetricOr0(groupObj.flexeraData.metrics, "totalCost"),
   ubcCost      |-> SumUbcCost(items, Len(items)),
   items        |-> items]

(* Lines 46-81: the application objects of a group, one per application
   name in the order of first occurrence. *)
ApplicationsOf(groupObj, businessUnit) ==
  LET items == groupObj.flexeraData.items
      names == KeysInOrder([i \in 1..Len(items) |-> AppName(items[i])])
  IN [k \in 1..Len(names) |->
        NewApplication(names[k], SelectSeq(items, LAMBDA item : AppName(item) = names[k]),
                       businessUnit, groupObj)]

(* Lines 84-87: appsByBusinessUnit[businessUnit] extended by references. *)
TrackApps(tracked, businessUnit, refs) ==
  IF \E i \in 1..Len(tracked) : tracked[i].unit = businessUnit
  THEN [i \in 1..Len(tracked) |->
          IF tracked[i].unit = businessUnit
          THEN [tracked[i] EXCEPT !.apps = @ \o refs]
          ELSE tracked[i]]
  ELSE Append(tracked, [unit |-> businessUnit, apps |-> refs])

(* Lines 126-135 (and 93-100 for a one-segment path): the metrics, items
   and applications of the group added to the node at key. *)
AddToNode(nodes, key, groupObj, refs) ==
  [nodes EXCEPT ![key] = [AddMetrics(@, MetricsOf(groupObj)) EXCEPT
                            !.items        = @ \o ItemsOf(groupObj),
                            !.applications = @ \o refs]]

(* A roll-up that adds nothing to root[unit]. *)
RollUpSkipped(nodes, unit, groupObj) == nodes

(* Lines 137-142: the roll-up of the group's metrics to root[unit]. *)
RollUpToBusinessUnit(nodes, unit, groupObj) ==
  [nodes EXCEPT ![<< unit >>] = AddMetrics(@, MetricsOf(groupObj))]

(* Lines 106-124: the nodes of segments 2..i created where missing. *)
RECURSIVE CreatePath(_, _, _)
CreatePath(nodes, segments, i) ==
  IF i < 2 THEN nodes
  ELSE LET below == CreatePath(nodes, segments, i - 1)
       IN IF MapHas(below, SubSeq(segments, 1, i)) THEN below
          ELSE MapSet(below, SubSeq(segments, 1, i), NewNode(segments[1]))

(* A placement that rolls a one-segment group up to its own node as well. *)
PlaceGroupRolledUpTwice(nodes, segments, groupObj, refs) ==
  RollUpToBusinessUnit(
    AddToNode(CreatePath(nodes, segments, Len(segments)), segments, groupObj, refs),
    segments[1], groupObj)

(* Lines 90-146 for one group, given its segments and the references to
   its application objects. *)
PlaceGroup(nodes, segments, groupObj, refs) ==
  IF Len(segments) = 1
  THEN AddToNode(nodes, segments, groupObj, refs)
  ELSE RollUpToBusinessUnit(
         AddToNode(CreatePath(nodes, segments, Len(segments)), segments, groupObj, refs),
         segments[1], groupObj)

(* One iteration of the loop of lines 39-147. *)
AddGroup(t, entry, segments, applications) ==
  [nodes |-> PlaceGroup(t.nodes, segments, entry.groupObj,
                        [k \in 1..Len(applications) |-> Len(t.heap) + k]),
   heap  |-> t.heap \o applications,
   appsByBusinessUnit |->
     TrackApps(t.appsByBusinessUnit, segments[1],
               [k \in 1..Len(applications) |-> Len(t.heap) + k])]

RECURSIVE AddGroups(_, _, _)
AddGroups(t, groupedData, n) ==
  IF n = 0 THEN t
  ELSE AddGroup(AddGroups(t, groupedData, n - 1), groupedData[n],
                Segments(groupedData[n].path),
                ApplicationsOf(groupedData[n].groupObj, Segments(groupedData[n].path)[1]))

(* A duplicate dropped instead of merged. *)
MergedIntoDroppingDuplicate(kept, app) == kept

(* Lines 158-164: app merged into the object kept for its name. *)
MergedInto(kept, app) ==
  [kept EXCEPT !.users       = @ + app.users,
               !.activeUsers = @ + app.activeUsers,
               !.accesses    = @ + app.accesses,
               !.totalCost   = @ + app.totalCost,
               !.ubcCost     = @ + app.ubcCost,
               !.items       = @ \o app.items]

(* Lines 154-166 for one application reference: uniqueApps[app.name] = app
   keeps the object itself, and a later application of that name is merged
   into that very object.  d is [heap, unique]. *)
DedupeApp(d, ref) ==
  LET hits == { k \in 1..Len(d.unique) : d.heap[d.unique[k]].name = d.heap[ref].name }
  IN IF hits = {}
     THEN [d EXCEPT !.unique = Append(@, ref)]
     ELSE [d EXCEPT !.heap[d.unique[CHOOSE k \in hits : TRUE]] = MergedInto(@, d.heap[ref])]

RECURSIVE DedupeApps(_, _, _)
DedupeApps(heap, refs, n) ==
  IF n = 0 THEN [heap |-> heap, unique |-> << >>]
  ELSE DedupeApp(DedupeApps(heap, refs, n - 1), refs[n])

(* Lines 150-170 for one business unit. *)
SetUnitApplications(t, unit, d) ==
  [t EXCEPT !.heap = d.heap, !.nodes[<< unit >>].applications = d.unique]

RECURSIVE DedupeUnits(_, _)
DedupeUnits(t, n) ==
  IF n = 0 THEN t
  ELSE SetUnitApplications(DedupeUnits(t, n - 1), t.appsByBusinessUnit[n].unit,
                           DedupeApps(DedupeUnits(t, n - 1).heap,
                                      t.appsByBusinessUnit[n].apps,
                                      Len(t.appsByBusinessUnit[n].apps)))

(* Lines 10-33: a zeroed node for each business unit. *)
BusinessUnitNodes(groupedData) ==
  [key \in { << Segments(groupedData[i].path)[1] >> : i \in 1..Len(groupedData) } |->
     NewNode(key[1])]

(* The returned tree with the references followed: each node's metrics,
   items and application objects. *)
Dereferenced(t) ==
  [key \in DOMAIN t.nodes |->
     [t.nodes[key] EXCEPT !.applications = [i \in 1..Len(@) |-> t.heap[@[i]]]]]

Deduped(t) == DedupeUnits(t, Len(t.appsByBusinessUnit))

buildNestedStructure(groupedData) ==
  Dereferenced(Deduped(AddGroups([nodes |-> BusinessUnitNodes(groupedData), heap |-> << >>,
                                  appsByBusinessUnit |-> << >>],
                                 groupedData, Len(groupedData))))

(***************************************************************************)
(* getApplicationCosts and applyUBCCostsToStructure.  The methods read     *)
(* this.ubcData and call this._normalizeAppName; the field and the helper  *)
(* are those of EnhancedMappingService.  A UBC row is [ApplicationName,    *)
(* StatutoryCharge, Email] with "" for an absent text and the number       *)
(* parseFloat(StatutoryCharge) || 0 for the charge.  The cost index is a   *)
(* sequence of entries in key order; an entry's matchConfidence is absent  *)
(* (matched = FALSE) until a fuzzy match writes it.                        *)
(***************************************************************************)

(* _normalizeAppName: "" for a null, undefined or empty name. *)
normalizeAppName(name) == Trim(CollapseSpaces(LowerAlnum(name, 1), 1))

(* item.ApplicationName || 'Unknown' *)
CostKey(row) == IF row.ApplicationName # "" THEN row.ApplicationName ELSE "Unknown"

RECURSIVE SumCharges(_, _)
SumCharges(rows, n) == IF n = 0 THEN 0 ELSE SumCharges(rows, n - 1) + rows[n].StatutoryCharge

(* The entry of one application name: the rows of that name summed. *)
CostEntry(key, rows) ==
  [key             |-> key,
   totalCost       |-> SumCharges(rows, Len(rows)),
   instances       |-> Len(rows),
   userCount       |-> Cardinality({ rows[i].Email : i \in 1..Len(rows) } \ { "" }),
   matched         |-> FALSE,
   matchConfidence |-> << 0, 1 >>,
   matchedWith     |-> ""]

getApplicationCosts(ubcRows) ==
  LET keys == KeysInOrder([i \in 1..Len(ubcRows) |-> CostKey(ubcRows[i])])
  IN [k \in 1..Len(keys) |->
        CostEntry(keys[k], SelectSeq(ubcRows, LAMBDA row : CostKey(row) = keys[k]))]

(* A score that adds the length ratio unhalved. *)
LengthRatioScoreUnscaled(a, b) ==
  Frac((IF Len(a) > Len(b) THEN Len(a) ELSE Len(b))
         + 2 * (IF Len(a) < Len(b) THEN Len(a) ELSE Len(b)),
       2 * (IF Len(a) > Len(b) THEN Len(a) ELSE Len(b)))

(* Lines 543-548: one normalised name contains the other. *)
LengthRatioScore(a, b) ==
  Frac((IF Len(a) > Len(b) THEN Len(a) ELSE Len(b)) + (IF Len(a) < Len(b) THEN Len(a) ELSE Len(b)),
       2 * (IF Len(a) > Len(b) THEN Len(a) ELSE Len(b)))

(* Lines 550-562: the share of the application's words that contain or are
   contained in a word of the cost name. *)
WordScore(appWords, costWords) ==
  Frac(Cardinality({ i \in 1..Len(appWords) :
                       \E j \in 1..Len(costWords) :
                         Includes(costWords[j], appWords[i]) \/ Includes(appWords[i], costWords[j]) }),
       IF Len(appWords) > Len(costWords) THEN Len(appWords) ELSE Len(costWords))

(* Lines 536-563: the score of a cost name for an application name, both
   normalised. *)
CostMatchScore(normalizedAppName, normalizedCostApp) ==
  IF Includes(normalizedCostApp, normalizedAppName) \/ Includes(normalizedAppName, normalizedCostApp)
  THEN LengthRatioScore(normalizedAppName, normalizedCostApp)
  ELSE WordScore(Split(normalizedAppName, " "), Split(normalizedCostApp, " "))

(* Lines 565-569 over all keys: the first key with the greatest score above
   0.3, or 0 when there is none. *)
BestCostMatch(scores) ==
  LET above == { k \in 1..Len(scores) : Gt(scores[k], << 3, 10 >>) }
      best  == { k \in above : /\ \A j \in above : ~Gt(scores[j], scores[k])
                               /\ \A j \in above : j < k => Gt(scores[k], scores[j]) }
  IN IF best = {} THEN 0 ELSE CHOOSE k \in best : TRUE

(* costData.matchConfidence || 1.0 *)
MatchConfidenceOr1(costData) ==
  IF costData.matched /\ costData.matchConfidence[1] # 0 THEN costData.matchConfidence
  ELSE << 1, 1 >>

(* Lines 581-584: the cost fields written on the item. *)
WithCost(item, costData) ==
  MapSet(MapSet(MapSet(MapSet(item, "ubcCost", costData.totalCost),
                       "ubcInstances", costData.instances),
                "ubcUserCount", costData.userCount),
         "ubcMatchConfidence", MatchConfidenceOr1(costData))

(* Lines 580-588: run is [index, items, total], the cost index, the items
   of the group done so far and groupTotalCost; k is the entry found for
   the item (0 for none). *)
ApplyCost(run, item, k) ==
  IF k = 0 THEN [run EXCEPT !.items = Append(@, item)]
  ELSE [run EXCEPT !.items = Append(@, WithCost(item, run.index[k])),
                   !.total = @ + run.index[k].totalCost]

(* Lines 571-577: the best match's entry is given the score and the key,
   in the index itself. *)
MarkMatched(run, k, scores) ==
  IF k = 0 THEN run
  ELSE [run EXCEPT !.index[k].matched = TRUE,
                   !.index[k].matchConfidence = scores[k],
                   !.index[k].matchedWith = run.index[k].key]

(* Lines 527-578: the fuzzy search for an item without an exact key. *)
FuzzyCost(run, item, scores) ==
  ApplyCost(MarkMatched(run, BestCostMatch(scores), scores), item, BestCostMatch(scores))

CostScores(index, appName) ==
  [k \in 1..Len(index) |->
     CostMatchScore(normalizeAppName(appName), normalizeAppName(index[k].key))]

(* Lines 518-588 for one item. *)
ReconcileItem(run, item) ==
  IF \E k \in 1..Len(run.index) : run.index[k].key = item.product
  THEN ApplyCost(run, item, CHOOSE k \in 1..Len(run.index) : run.index[k].key = item.product)
  ELSE FuzzyCost(run, item, CostScores(run.index, item.product))

RECURSIVE ReconcileItems(_, _, _)
ReconcileItems(index, items, n) ==
  IF n = 0 THEN [index |-> index, items |-> << >>, total |-> 0]
  ELSE ReconcileItem(ReconcileItems(index, items, n - 1), items[n])

(* Lines 511-596 for one group: its items reconciled and its metrics given
   totalUBCCost.  done is [index, groups]. *)
ReconciledGroup(done, entry, run) ==
  [index  |-> run.index,
   groups |-> Append(done.groups,
                     [entry EXCEPT !.groupObj.flexeraData.items = run.items,
                                   !.groupObj.flexeraData.metrics =
                                      MapSet(@, "totalUBCCost", run.total)])]

ReconcileGroup(done, entry) ==
  ReconciledGroup(done, entry,
                  ReconcileItems(done.index, entry.groupObj.flexeraData.items,
                                 Len(entry.groupObj.flexeraData.items)))

RECURSIVE ReconcileGroups(_, _, _)
ReconcileGroups(index, appStructure, n) ==
  IF n = 0 THEN [index |-> index, groups |-> << >>]
  ELSE ReconcileGroup(ReconcileGroups(index, appStructure, n - 1), appStructure[n])

(* applyUBCCostsToStructure: ubc is [loaded, rows], this.ubcData (null until
   loaded). *)
applyUBCCostsToStructure(ubc, appStructure) ==
  IF ~ubc.loaded THEN appStructure
  ELSE ReconcileGroups(getApplicationCosts(ubc.rows), appStructure, Len(appStructure)).groups

(***************************************************************************)
(* The classification service and the inventory loader as a state machine  *)
(***************************************************************************)

VARIABLES
  groupDefinitions,   \* EnhancedClassificationService.groupDefinitions
  vendorMappings,     \* .vendorMappings
  keywordMappings,    \* .keywordMappings
  cache,              \* .cache, the memo of findGroupForSoftware
  flexeraData,        \* DataProcessingService.flexeraData (<< >> before a load)
  calls,              \* number of calls made so far
  last,               \* the last call: its name, arguments and outcome
  structure,          \* processedData.structure of the dashboard (<< >> before processData)
  tree,               \* the dashboard's nested tree (the empty map before it is built)
  stage,              \* how far the dashboard's processFiles has come
  ubcData,            \* the UBC cost rows, [loaded, rows] (not loaded: null)
  reconciled,         \* whether applyUBCCostsToStructure ran, and when: "never",
                      \* "beforeTree" or "afterTree"
  processorCache,     \* FlexeraDataProcessingService.cache, its entry of the reporting month
  fetches,            \* the calls of fetchAllFlexeraData: where each one stands, and its locals
  localStorage,       \* localStorage under 'applicationGroups': << >> (null) or << the list stored >>
  customGroups,       \* AdvancedGroupingService.customGroups
  groupMatchCache,    \* AdvancedGroupingService.groupMatchCache
  componentGroups,    \* the state groups of the GroupManagement component
  saveAttempted,      \* the state saveAttempted of the component
  effectDue,          \* the component rendered anew and its save effect has not run yet
  now,                \* Date.now()
  groupMetrics,       \* the state groupMetrics of the dashboard
  lastOp              \* the step taken last on the groups, and its outcome

svcVars == << groupDefinitions, vendorMappings, keywordMappings, cache, flexeraData, calls, last >>

dashVars == << structure, tree, stage, ubcData, reconciled >>

fetchVars == << processorCache, fetches >>

groupVars == << localStorage, customGroups, groupMatchCache, componentGroups, saveAttempted,
               effectDue, now, groupMetrics, lastOp >>

vars == << groupDefinitions, vendorMappings, keywordMappings, cache, flexeraData, calls, last,
           structure, tree, stage, ubcData, reconciled, processorCache, fetches,
           localStorage, customGroups, groupMatchCache, componentGroups, saveAttempted,
           effectDue, now, groupMetrics, lastOp >>

(* The bound on the calls of fetchAllFlexeraData. *)
MaxFetches == 2

(* No call of fetchAllFlexeraData was made: the cache is new Map(). *)
FetchIdle ==
  /\ processorCache = None
  /\ fetches = [c \in 1..MaxFetches |-> [pc |-> "idle", allData |-> << >>, received |-> << >>, nextPageUrl |-> FALSE,
                                         pages |-> 0, fromCache |-> FALSE, ret |-> None]]

(* Nothing was done on the groups. *)
NoOp == [kind |-> "none", saved |-> "none", before |-> << >>, id |-> 0, app |-> "", ret |-> FALSE]

(* Nothing is stored: the service was constructed and the component mounted
   over an empty storage, and no group metrics were computed. *)
GroupsIdle ==
  /\ localStorage = << >>
  /\ customGroups = << >>
  /\ groupMatchCache = EmptyMap
  /\ componentGroups = << >>
  /\ saveAttempted = FALSE
  /\ effectDue = FALSE
  /\ now = 1
  /\ groupMetrics = << >>
  /\ lastOp = NoOp

(* The dashboard before a file was chosen. *)
DashIdle ==
  /\ structure = << >>
  /\ tree = EmptyMap
  /\ stage = "idle"
  /\ ubcData = [loaded |-> FALSE, rows |-> << >>]
  /\ reconciled = "never"
  /\ FetchIdle
  /\ GroupsIdle

(* The service's fields, as recorded before a call. *)
Fields == [groupDefinitions |-> groupDefinitions, vendorMappings |-> vendorMappings,
           keywordMappings |-> keywordMappings, cache |-> cache]

NoCall == [op |-> "new", name |-> "", path |-> "", keywords |-> TRUE, vendor |-> TRUE,
           threw |-> FALSE, ret |-> "", conf |-> NaN, readCache |-> FALSE,
           before |-> [groupDefinitions |-> NoGroups, vendorMappings |-> EmptyMap,
                       keywordMappings |-> << >>, cache |-> EmptyMap]]

(* new EnhancedClassificationService(groupDefinitions) *)
Constructed(defs) ==
  /\ groupDefinitions = defs
  /\ vendorMappings = BuildVendorMappingsOf(defs)
  /\ keywordMappings = BuildKeywordMappings
  /\ cache = EmptyMap

SvcInit ==
  /\ \E defs \in Taxonomies : Constructed(defs)
  /\ flexeraData = << >>
  /\ calls = 0
  /\ last = NoCall
  /\ DashIdle

FindGroupForSoftwareCall(softwareName, fallbackToKeywords, fallbackToVendor) ==
  LET r == FindGroupForSoftware(groupDefinitions, vendorMappings, keywordMappings, cache,
                                softwareName, fallbackToKeywords, fallbackToVendor)
  IN /\ calls < MaxCalls
     /\ calls' = calls + 1
     /\ cache' = r.cache
     /\ last' = [NoCall EXCEPT !.op = "findGroupForSoftware", !.name = softwareName,
                               !.keywords = fallbackToKeywords, !.vendor = fallbackToVendor,
                               !.threw = r.threw, !.ret = r.ret, !.readCache = r.readCache,
                               !.before = Fields]
     /\ UNCHANGED << groupDefinitions, vendorMappings, keywordMappings, flexeraData >>
     /\ UNCHANGED dashVars
     /\ UNCHANGED << fetchVars, groupVars >>

GetClassificationConfidenceCall(softwareName, groupPath) ==
  LET r == GetClassificationConfidence(groupDefinitions, vendorMappings, keywordMappings,
                                       softwareName, groupPath)
  IN /\ calls < MaxCalls
     /\ calls' = calls + 1
     /\ last' = [NoCall EXCEPT !.op = "getClassificationConfidence", !.name = softwareName,
                               !.path = groupPath, !.threw = r.threw, !.conf = r.ret,
                               !.before = Fields]
     /\ UNCHANGED << groupDefinitions, vendorMappings, keywordMappings, cache, flexeraData >>
     /\ UNCHANGED dashVars
     /\ UNCHANGED << fetchVars, groupVars >>

(* An updateDefinitions that rebuilds the maps but keeps the memo. *)
UpdateDefinitionsKeepingMemo(newDefinitions) ==
  /\ calls < MaxCalls
  /\ calls' = calls + 1
  /\ groupDefinitions' = newDefinitions
  /\ IF newDefinitions.hasGroups
     THEN /\ vendorMappings' = BuildVendorMappingsOf(newDefinitions)
          /\ keywordMappings' = BuildKeywordMappings
     ELSE UNCHANGED << vendorMappings, keywordMappings >>
  /\ last' = [NoCall EXCEPT !.op = "updateDefinitions", !.threw = ~newDefinitions.hasGroups,
                            !.before = Fields]
  /\ UNCHANGED << cache, flexeraData >>
  /\ UNCHANGED dashVars
  /\ UNCHANGED << fetchVars, groupVars >>

(* updateDefinitions: the assignment of groupDefinitions comes first; with
   no groups list _buildVendorMappings then throws and nothing else is
   touched. *)
UpdateDefinitions(newDefinitions) ==
  /\ calls < MaxCalls
  /\ calls' = calls + 1
  /\ groupDefinitions' = newDefinitions
  /\ IF newDefinitions.hasGroups
     THEN /\ vendorMappings' = BuildVendorMappingsOf(newDefinitions)
          /\ keywordMappings' = BuildKeywordMappings
          /\ cache' = EmptyMap
     ELSE UNCHANGED << vendorMappings, keywordMappings, cache >>
  /\ last' = [NoCall EXCEPT !.op = "updateDefinitions", !.threw = ~newDefinitions.hasGroups,
                            !.before = Fields]
  /\ UNCHANGED flexeraData
  /\ UNCHANGED dashVars
  /\ UNCHANGED << fetchVars, groupVars >>

(* loadFlexeraData on a parsed file: flexeraData is assigned only when every
   row was enriched; the memo entries written on the way stay. *)
LoadFlexeraData(rows) ==
  LET r == EnrichRows(groupDefinitions, vendorMappings, keywordMappings, cache, rows, Len(rows))
  IN /\ calls < MaxCalls
     /\ calls' = calls + 1
     /\ cache' = r.cache
     /\ flexeraData' = IF r.threw THEN flexeraData ELSE r.items
     /\ last' = [NoCall EXCEPT !.op = "loadFlexeraData", !.threw = r.threw, !.before = Fields]
     /\ UNCHANGED << groupDefinitions, vendorMappings, keywordMappings >>
     /\ UNCHANGED dashVars
     /\ UNCHANGED << fetchVars, groupVars >>

(* The batches of at most MaxRows rows. *)
Batches == UNION { [1..n -> RowNames] : n \in 0..MaxRows }

SvcNext ==
  \/ \E n \in Names, f \in FallbackFlags : FindGroupForSoftwareCall(n, f[1], f[2])
  \/ \E n \in Names :
       \E p \in AskedPaths \cup (IF MapHas(cache, n) THEN {cache[n]} ELSE {}) :
         GetClassificationConfidenceCall(n, p)
  \/ \E d \in Taxonomies \cup {NoGroups} : UpdateDefinitions(d)
  \/ \E rows \in Batches : LoadFlexeraData(rows)

Spec == SvcInit /\ [][SvcNext]_vars

(***************************************************************************)
(* The dashboard's processFiles as a state machine: the classified records *)
(* are stored, processData groups them, buildNestedStructure builds the    *)
(* tree.  The aggregator takes any sequence of classified records, so the  *)
(* records arrive with their paths.                                        *)
(***************************************************************************)

Record(product, user, lastUsed, ubcCost, groupPath) ==
  [product |-> product, user |-> user, lastUsed |-> lastUsed, ubcCost |-> ubcCost,
   groupPath |-> groupPath]

(* Two installations of one application in one group by one user, the same
   application in a second sub-group of the business unit, a group below
   another group, a group on the business unit itself and a row without a
   product. *)
RecordPool ==
  { Record("AutoCAD", "ann@x.com", "2024-05-01", 0, "Engineering Software > CAD Tools"),
    Record("AutoCAD", "ann@x.com", "2024-06-01", 1, "Engineering Software > CAD Tools"),
    Record("AutoCAD", "bob@x.com", " ", 2, "Engineering Software > Simulation"),
    Record("DWG TrueView", "bob@x.com", "", 0, "Engineering Software > CAD Tools > Viewers"),
    Record("Ansys", "ann@x.com", "2024-01-01", 0, "Engineering Software"),
    Record("", "cat@x.com", "", 0, "Unclassified") }

(* The longest sequence of classified records explored. *)
MaxRecords == 3

ClassifiedBatches == UNION { [1..n -> RecordPool] : n \in 0..MaxRecords }

DashInit ==
  /\ Constructed(TaxonomyMS)
  /\ flexeraData = << >>
  /\ calls = 0
  /\ last = NoCall
  /\ DashIdle

(* The end of loadFlexeraData: this.flexeraData = enrichedData.  Each row
   object is given its identity, row: the groups and the tree hold the row
   objects themselves, not copies. *)
StoreClassified(rows) ==
  /\ stage = "idle"
  /\ flexeraData' = [i \in 1..Len(rows) |-> MapSet(rows[i], "row", i)]
  /\ stage' = "loaded"
  /\ UNCHANGED << fetchVars, groupVars >>
  /\ UNCHANGED << groupDefinitions, vendorMappings, keywordMappings, cache, calls, last,
                  structure, tree, ubcData, reconciled >>

(* processedData = dataService.processData(quarter) *)
ProcessData ==
  /\ stage = "loaded"
  /\ structure' = ProcessedStructure(flexeraData)
  /\ stage' = "processed"
  /\ UNCHANGED << fetchVars, groupVars >>
  /\ UNCHANGED << groupDefinitions, vendorMappings, keywordMappings, cache, flexeraData,
                  calls, last, tree, ubcData, reconciled >>

(* tree = buildNestedStructure(processedData.structure) *)
BuildTree ==
  /\ stage = "processed"
  /\ tree' = buildNestedStructure(structure)
  /\ stage' = "built"
  /\ UNCHANGED << fetchVars, groupVars >>
  /\ UNCHANGED << groupDefinitions, vendorMappings, keywordMappings, cache, flexeraData,
                  calls, last, structure, ubcData, reconciled >>

UbcRow(name, charge, email) ==
  [ApplicationName |-> name, StatutoryCharge |-> charge, Email |-> email]

(* The cost files: one application; one application charged twice; names
   that match the products only up to case, as a longer name or word by
   word; an empty file. *)
CostFiles ==
  { << UbcRow("AutoCAD", 10, "ann@x.com") >>,
    << UbcRow("AutoCAD", 10, "ann@x.com"), UbcRow("AutoCAD", 5, "bob@x.com") >>,
    << UbcRow("Dwg Trueview", 4, "bob@x.com"), UbcRow("Ansys Mechanical", 5, ""),
       UbcRow("AutoCAD", 10, "ann@x.com") >>,
    << UbcRow("TrueView Viewer DWG", 1, ""), UbcRow("AutoCAD", 10, "") >>,
    << >> }

(* loadUBCData: this.ubcData = the parsed rows. *)
LoadUBCData(rows) ==
  /\ ~ubcData.loaded
  /\ ubcData' = [loaded |-> TRUE, rows |-> rows]
  /\ UNCHANGED << fetchVars, groupVars >>
  /\ UNCHANGED << groupDefinitions, vendorMappings, keywordMappings, cache, flexeraData,
                  calls, last, structure, tree, stage, reconciled >>

(* The row object of identity r, as a structure holds it. *)
RowObject(appStructure, r) ==
  LET g == CHOOSE k \in 1..Len(appStructure) :
             \E i \in 1..Len(appStructure[k].groupObj.flexeraData.items) :
               appStructure[k].groupObj.flexeraData.items[i].row = r
      items == appStructure[g].groupObj.flexeraData.items
  IN items[CHOOSE i \in 1..Len(items) : items[i].row = r]

SameObjects(items, appStructure) ==
  [i \in 1..Len(items) |-> RowObject(appStructure, items[i].row)]

(* A tree whose item lists hold the row objects as they are in a
   structure. *)
TreeOver(t, appStructure) ==
  [key \in DOMAIN t |->
     [t[key] EXCEPT
        !.items = SameObjects(@, appStructure),
        !.applications = [i \in 1..Len(@) |->
                            [@[i] EXCEPT !.items = SameObjects(@, appStructure)]]]]

(* applyUBCCostsToStructure(processedData.structure): the items are changed
   in place, so flexeraData and a tree built before see the cost fields;
   the numbers of a tree built before stay as they are. *)
ApplyUBCCosts ==
  /\ stage \in { "processed", "built" }
  /\ reconciled = "never"
  /\ structure' = applyUBCCostsToStructure(ubcData, structure)
  /\ flexeraData' = SameObjects(flexeraData, structure')
  /\ tree' = TreeOver(tree, structure')
  /\ reconciled' = IF ~ubcData.loaded THEN "never" ELSE IF stage = "built" THEN "afterTree" ELSE "beforeTree"
  /\ UNCHANGED << fetchVars, groupVars >>
  /\ UNCHANGED << groupDefinitions, vendorMappings, keywordMappings, cache, calls, last,
                  stage, ubcData >>

DashNext ==
  \/ \E rows \in ClassifiedBatches : StoreClassified(rows)
  \/ ProcessData
  \/ BuildTree
  \/ \E rows \in CostFiles : LoadUBCData(rows)
  \/ ApplyUBCCosts

SpecTree == DashInit /\ [][DashNext]_vars

(***************************************************************************)
(* Properties of the classification service                                *)
(***************************************************************************)

(* The last call was findGroupForSoftware, it returned, and the service
   holds definitions with a groups list. *)
Returned ==
  last.op = "findGroupForSoftware" /\ ~last.threw /\ groupDefinitions.hasGroups

(* What the tiers compute for the name of the last call. *)
LastTiers == TiersOf(groupDefinitions, keywordMappings, last.name)

(* getClassificationConfidence(name, path) in the current state. *)
ConfidenceNow(softwareName, groupPath) ==
  GetClassificationConfidence(groupDefinitions, vendorMappings, keywordMappings,
                              softwareName, groupPath).ret

(* For each taxonomy and name, the (path, member, leaf) listings whose
   normalised member is the normalised name, in depth-first order. *)
ListingTable ==
  [d \in Taxonomies |->
     [n \in TableNames |->
        LET pairs == MemberPairs(d.groups, "")
        IN SelectSeq(pairs, LAMBDA p : normalizeName(p.member) = normalizeName(n))]]

Listings == ListingTable[groupDefinitions][last.name]

IsZero(c) == c[1] = 0 /\ c[2] # 0

IsOne(c) == c[1] = c[2] /\ c[2] # 0

InUnitInterval(c) == c[2] > 0 /\ c[1] >= 0 /\ c[1] <= c[2]

(* C1 as stated: a name whose normalised form is that of a member listed
   under a leaf with path P is classified as P, and its confidence for P is
   1.0, for every such leaf of the taxonomy. *)
C1_ExactMemberGetsItsLeaf ==
  Returned =>
    \A i \in 1..Len(Listings) :
       Listings[i].leaf =>
         /\ last.ret = Listings[i].path
         /\ IsOne(ConfidenceNow(last.name, Listings[i].path))

(* C1 amended: a non-empty name whose normalised form is that of a listed
   member is classified as the path P of the first node in depth-first
   order that lists such a member, with confidence 1.0 for P, provided P is
   neither empty nor the sentinel string. *)
C1_FirstListingWins ==
  (Returned /\ last.name # "" /\ Listings # << >>) =>
    LET P == Listings[1].path
    IN (P # "" /\ P # Unclassified) =>
         /\ last.ret = P
         /\ IsOne(ConfidenceNow(last.name, P))

(* A member listed under two nodes was classified: the first node won. *)
C1_Witness ==
  /\ Returned /\ last.name # ""
  /\ \E i \in 1..Len(Listings) : Listings[i].path # Listings[1].path
  /\ last.ret = Listings[1].path
  /\ IsOne(ConfidenceNow(last.name, last.ret))

(* C2: every enriched record has a confidence in [0, 1] that is 0 exactly
   when its groupPath is the sentinel. *)
C2_ZeroConfidenceIffUnclassified ==
  \A i \in 1..Len(flexeraData) :
     /\ InUnitInterval(flexeraData[i].classificationConfidence)
     /\ IsZero(flexeraData[i].classificationConfidence)
          <=> flexeraData[i].groupPath = Unclassified

(* C3: every path findGroupForSoftware returns is the path of a node of
   the supplied taxonomy or the sentinel. *)
C3_PathsComeFromTaxonomy ==
  Returned => last.ret \in NodePaths(groupDefinitions.groups, "") \cup {Unclassified}

(* The name of the last call matches no taxonomy member, no keyword and no
   vendor mapping. *)
MatchesNothing ==
  /\ ~LastTiers.exact.some
  /\ ~LastTiers.fuzzy.some
  /\ ~LastTiers.keyword.some
  /\ ~(LastTiers.vendor.some /\ MapHas(vendorMappings, LastTiers.vendor.val))

(* C4: a name that matches nothing is classified as the sentinel with
   confidence 0, and an empty name returns the sentinel without reading or
   writing the memo cache. *)
C4_UnmatchedIsUnclassified ==
  /\ (Returned /\ last.name # "" /\ MatchesNothing) =>
       /\ last.ret = Unclassified
       /\ IsZero(ConfidenceNow(last.name, last.ret))
  /\ (last.op = "findGroupForSoftware" /\ last.name = "") =>
       /\ ~last.threw
       /\ last.ret = Unclassified
       /\ ~last.readCache
       /\ cache = last.before.cache

(* An unrecognisable name was classified (and memoized) as the sentinel. *)
C4_Witness ==
  /\ Returned /\ last.name # "" /\ MatchesNothing
  /\ last.ret = Unclassified
  /\ MapHas(cache, last.name)

(* The fuzzy tier produced the path of the last call. *)
FuzzyProduced ==
  ~Truthy(LastTiers.exact) /\ Truthy(LastTiers.fuzzy) /\ last.ret = LastTiers.fuzzy.val

(* A name that is no exact match of a member never has confidence 1.0,
   for the path assigned to it or any path asked about. *)
NeverOneUnlessExact ==
  /\ (Returned /\ last.name # "" /\ ~LastTiers.exact.some) =>
       ~IsOne(ConfidenceNow(last.name, last.ret))
  /\ (last.op = "getClassificationConfidence" /\ ~last.threw /\ groupDefinitions.hasGroups
        /\ ~LastTiers.exact.some) =>
       ~IsOne(last.conf)

(* C5 as stated: no confidence 1.0 without an exact match, and confidence
   exactly 0.8 whenever the fuzzy tier produced the path. *)
C5_FuzzyIsPointEight ==
  /\ NeverOneUnlessExact
  /\ (Returned /\ last.name # "" /\ FuzzyProduced) =>
       ConfidenceNow(last.name, last.ret) = << 4, 5 >>

(* C5 amended: the same, for fuzzy paths other than the sentinel string. *)
C5_FuzzyIsPointEightUnlessSentinel ==
  /\ NeverOneUnlessExact
  /\ (Returned /\ last.name # "" /\ FuzzyProduced /\ last.ret # Unclassified) =>
       ConfidenceNow(last.name, last.ret) = << 4, 5 >>

(* A name that is no exact match was given its path by the fuzzy tier. *)
C5_Witness ==
  /\ Returned /\ last.name # "" /\ FuzzyProduced
  /\ ~LastTiers.exact.some
  /\ last.ret # Unclassified
  /\ ConfidenceNow(last.name, last.ret) = << 4, 5 >>

(* C9: after updateDefinitions(D) has returned, the maps are those built
   from D, no memo entry survives, and every name is classified as by a
   freshly constructed service over D. *)
C9_UpdateRebuildsIndex ==
  (last.op = "updateDefinitions" /\ ~last.threw) =>
    /\ vendorMappings = BuildVendorMappings(groupDefinitions)
    /\ keywordMappings = BuildKeywordMappings
    /\ cache = EmptyMap
    /\ \A n \in Names, f \in FallbackFlags :
         FindGroupForSoftware(groupDefinitions, vendorMappings, keywordMappings, cache,
                              n, f[1], f[2]).ret
           = FindGroupForSoftware(groupDefinitions, BuildVendorMappings(groupDefinitions),
                                  BuildKeywordMappings, EmptyMap, n, f[1], f[2]).ret

(* The definitions were replaced while the memo held a name classified
   under the previous ones. *)
C9_Witness ==
  /\ last.op = "updateDefinitions" /\ ~last.threw
  /\ last.before.cache # EmptyMap
  /\ last.before.groupDefinitions # groupDefinitions
  /\ cache = EmptyMap

(* C10: a failed updateDefinitions leaves groupDefinitions, both maps and
   the memo cache as they were before the call. *)
C10_FailedUpdateLeavesIndexIntact ==
  (last.op = "updateDefinitions" /\ last.threw) => Fields = last.before

(***************************************************************************)
(* fetchAllFlexeraData and the cache of the processed inventory            *)
(***************************************************************************)

(* The bound on the pages of one fetch. *)
MaxPages == 2

(* PAGE_SIZE, the length at which the rows fetched so far are processed and
   cached as a chunk (10000 in the source, scaled to the pages below). *)
PAGE_SIZE == 2

(* The pages a request can answer with, response.values: rows of [email,
   product, isUsed, usagePeriod]. *)
Pages ==
  LET row(email, product, isUsed, usagePeriod) == [email |-> email, product |-> product, isUsed |-> isUsed, usagePeriod |-> usagePeriod]
  IN { << >>,
       << row("ann", "Excel", TRUE, 1), row("ann", "Excel", TRUE, 2) >>,
       << row("ann", "Excel", TRUE, 2) >>,
       << row("bob", "Word", FALSE, 5) >> }

(* _calculateAccessCount: the usage periods of the used installations, summed. *)
RECURSIVE calculateAccessCount(_)
calculateAccessCount(group) ==
  IF group = << >> THEN 0
  ELSE (IF Head(group).isUsed THEN Head(group).usagePeriod ELSE 0) + calculateAccessCount(Tail(group))

(* processFlexeraData: the rows grouped by email|product in the order of the
   first row of each group, one record for each group. *)
processFlexeraData(rows) ==
  LET keys == KeysInOrder([i \in 1..Len(rows) |-> << rows[i].email, rows[i].product >>])
  IN [k \in 1..Len(keys) |->
        [email |-> keys[k][1], application |-> keys[k][2],
         accessCount |-> calculateAccessCount(SelectSeq(rows, LAMBDA r : << r.email, r.product >> = keys[k]))]]

(* The call up to its first await: a cached entry of the month is returned
   (an entry is younger than CACHE_DURATION), else the first page is asked for. *)
CallFetch(c) ==
  /\ fetches[c].pc = "idle"
  /\ c > 1 => fetches[c - 1].pc # "idle"
  /\ fetches' = [fetches EXCEPT ![c] =
       IF processorCache.some
       THEN [@ EXCEPT !.pc = "returned", !.fromCache = TRUE, !.ret = processorCache]
       ELSE [@ EXCEPT !.pc = "awaitPage", !.nextPageUrl = TRUE]]
  /\ UNCHANGED processorCache
  /\ UNCHANGED << svcVars, dashVars, groupVars >>

(* _fetchFlexeraPage resolves: the body of the loop up to the next await, and
   past the loop when no page follows and no chunk is due. *)
PageArrives(c, values, nextPage) ==
  LET call == fetches[c]
      allData == call.allData \o values
      got == [call EXCEPT !.allData = allData, !.received = @ \o values, !.nextPageUrl = nextPage, !.pages = @ + 1]
  IN /\ call.pc = "awaitPage"
     /\ call.pages < MaxPages
     /\ nextPage => call.pages + 1 < MaxPages
     /\ IF Len(allData) >= PAGE_SIZE
        THEN /\ processorCache' = Some(processFlexeraData(allData))
             /\ fetches' = [fetches EXCEPT ![c] = [got EXCEPT !.pc = "awaitChunkSent"]]
        ELSE IF nextPage
        THEN /\ fetches' = [fetches EXCEPT ![c] = got]
             /\ UNCHANGED processorCache
        ELSE IF Len(allData) > 0
        THEN /\ processorCache' = Some(processFlexeraData(allData))
             /\ fetches' = [fetches EXCEPT ![c] = [got EXCEPT !.pc = "awaitRemainderSent"]]
        ELSE /\ fetches' = [fetches EXCEPT ![c] = [got EXCEPT !.pc = "returned", !.ret = processorCache]]
             /\ UNCHANGED processorCache
     /\ UNCHANGED << svcVars, dashVars, groupVars >>

(* _fetchFlexeraPage rejects: fetchAllFlexeraData rethrows. *)
PageFails(c) ==
  /\ fetches[c].pc = "awaitPage"
  /\ fetches' = [fetches EXCEPT ![c] = [@ EXCEPT !.pc = "thrown"]]
  /\ UNCHANGED processorCache
  /\ UNCHANGED << svcVars, dashVars, groupVars >>

(* _sendToISCharges of a chunk resolves (it never rejects): allData = [], then
   the next page, or the return of the cached data when no page follows. *)
ChunkSent(c) ==
  /\ fetches[c].pc = "awaitChunkSent"
  /\ fetches' = [fetches EXCEPT ![c] =
       IF @.nextPageUrl
       THEN [@ EXCEPT !.allData = << >>, !.pc = "awaitPage"]
       ELSE [@ EXCEPT !.allData = << >>, !.pc = "returned", !.ret = processorCache]]
  /\ UNCHANGED processorCache
  /\ UNCHANGED << svcVars, dashVars, groupVars >>

(* _sendToISCharges of the remaining rows resolves: return getCachedData(cacheKey). *)
RemainderSent(c) ==
  /\ fetches[c].pc = "awaitRemainderSent"
  /\ fetches' = [fetches EXCEPT ![c] = [@ EXCEPT !.pc = "returned", !.ret = processorCache]]
  /\ UNCHANGED processorCache
  /\ UNCHANGED << svcVars, dashVars, groupVars >>

FetchNext ==
  \E c \in 1..MaxFetches :
    \/ CallFetch(c)
    \/ \E values \in Pages, nextPage \in BOOLEAN : PageArrives(c, values, nextPage)
    \/ PageFails(c)
    \/ ChunkSent(c)
    \/ RemainderSent(c)

SpecFetch == DashInit /\ [][FetchNext]_vars

(***************************************************************************)
(* The application groups: StorageService, AdvancedGroupingService, the    *)
(* GroupManagement component and the dashboard's handleGroupChange         *)
(***************************************************************************)

(* The bound on the length of a list of groups. *)
MaxGroups == 2

(* The bound on the readings of the clock. *)
MaxClock == 2

(* What the forms offer: the name of a group and the applications ticked. *)
GroupForms == {[name |-> "Office", applications |-> << "Excel" >>], [name |-> "Design", applications |-> << >>]}

(* chartData.allApps of the dashboard after its files were processed. *)
allApps == << [name |-> "Excel"], [name |-> "Word"] >>

(* StorageService.loadData(key, []): the default when getItem gives null,
   else the list that was serialized. *)
loadData(storage) == IF storage = << >> THEN << >> ELSE storage[1]

(* StorageService.saveData under the three outcomes of the two setItem calls:
   the first one stores ("stored"); the first throws, the item is removed and
   the second stores ("recovered"); both throw ("lost").  The serialized form
   of a list is never empty, so the verification after the first setItem
   passes. *)
saveData(storage, data, outcome) ==
  [success |-> outcome # "lost", storage |-> IF outcome = "lost" THEN << >> ELSE << data >>]

(* The group objects createGroup and handleCreateGroup build: the id is the
   reading of the clock (as a string, one string for a reading). *)
NewGroup(form) == [id |-> now, name |-> form.name, applications |-> form.applications]

(* updatedGroups of updateGroup and of handleUpdateGroup: every group of the
   id takes the name and the applications of the form. *)
WithGroupUpdated(list, id, form) ==
  [i \in 1..Len(list) |-> IF list[i].id = id THEN [list[i] EXCEPT !.name = form.name, !.applications = form.applications] ELSE list[i]]

(* getGroupMetrics(appData) over the list loadGroups has read:
   groupDataByCustomGroups keeps one array for a group name and pushes an
   application once for every group of that name listing it; each group's
   entry names the applications of the array of its name.  (The user, cost
   and access sums over those applications are left out.) *)
getGroupMetrics(list, appData) ==
  LET pairs == [k \in 1..(Len(appData) * Len(list)) |-> << ((k - 1) \div Len(list)) + 1, ((k - 1) % Len(list)) + 1 >>]
      pushed(name) == SelectSeq(pairs, LAMBDA p : list[p[2]].name = name /\ \E j \in 1..Len(list[p[2]].applications) : list[p[2]].applications[j] = appData[p[1]].name)
      apps(name) == [k \in 1..Len(pushed(name)) |-> appData[pushed(name)[k][1]].name]
  IN [i \in 1..Len(list) |-> [id |-> list[i].id, name |-> list[i].name, applications |-> apps(list[i].name), applicationCount |-> Len(apps(list[i].name))]]

(* The clock moves on. *)
Tick ==
  /\ now < MaxClock
  /\ now' = now + 1
  /\ lastOp' = [NoOp EXCEPT !.kind = "tick"]
  /\ UNCHANGED << localStorage, customGroups, groupMatchCache, componentGroups, saveAttempted, effectDue, groupMetrics >>
  /\ UNCHANGED << svcVars, dashVars, fetchVars >>

(* handleTemplateApplied: createGroup of the service (the new group appended
   to this.customGroups, saveGroups, loadGroups after a save), then
   handleGroupChange, which reads the groups back and sets the metrics. *)
handleTemplateApplied(form, outcome) ==
  LET saved == saveData(localStorage, Append(customGroups, NewGroup(form)), outcome)
  IN /\ ~effectDue
     /\ Len(customGroups) < MaxGroups
     /\ localStorage' = saved.storage
     /\ customGroups' = loadData(saved.storage)
     /\ groupMatchCache' = IF saved.success THEN EmptyMap ELSE groupMatchCache
     /\ groupMetrics' = getGroupMetrics(loadData(saved.storage), allApps)
     /\ lastOp' = [NoOp EXCEPT !.kind = "createGroup", !.saved = IF saved.success THEN "ok" ELSE "failed", !.before = IF saved.success THEN << >> ELSE localStorage, !.id = now]
     /\ UNCHANGED << componentGroups, saveAttempted, effectDue, now >>
     /\ UNCHANGED << svcVars, dashVars, fetchVars >>

(* updateGroup of the service: loadGroups, the groups of the id replaced,
   saveGroups, loadGroups after a save. *)
updateGroup(id, form, outcome) ==
  LET saved == saveData(localStorage, WithGroupUpdated(loadData(localStorage), id, form), outcome)
  IN /\ ~effectDue
     /\ localStorage' = saved.storage
     /\ customGroups' = IF saved.success THEN loadData(saved.storage) ELSE loadData(localStorage)
     /\ groupMatchCache' = IF saved.success THEN EmptyMap ELSE groupMatchCache
     /\ lastOp' = [NoOp EXCEPT !.kind = "updateGroup", !.saved = IF saved.success THEN "ok" ELSE "failed", !.before = IF saved.success THEN << >> ELSE localStorage, !.id = id]
     /\ UNCHANGED << componentGroups, saveAttempted, effectDue, now, groupMetrics >>
     /\ UNCHANGED << svcVars, dashVars, fetchVars >>

(* deleteGroup of the service: loadGroups, false when no group has the id,
   else the groups of the id filtered out, saveGroups, loadGroups after a save. *)
deleteGroup(id, outcome) ==
  LET loaded == loadData(localStorage)
      found == \E i \in 1..Len(loaded) : loaded[i].id = id
      saved == saveData(localStorage, SelectSeq(loaded, LAMBDA g : g.id # id), outcome)
  IN /\ ~effectDue
     /\ found \/ outcome = "stored"
     /\ localStorage' = IF found THEN saved.storage ELSE localStorage
     /\ customGroups' = IF found /\ saved.success THEN loadData(saved.storage) ELSE loaded
     /\ groupMatchCache' = IF found /\ saved.success THEN EmptyMap ELSE groupMatchCache
     /\ lastOp' = [NoOp EXCEPT !.kind = "deleteGroup", !.saved = IF ~found THEN "none" ELSE IF saved.success THEN "ok" ELSE "failed", !.before = IF found /\ ~saved.success THEN localStorage ELSE << >>, !.id = id]
     /\ UNCHANGED << componentGroups, saveAttempted, effectDue, now, groupMetrics >>
     /\ UNCHANGED << svcVars, dashVars, fetchVars >>

(* isAppInGroup(appName, groupId): loadGroups, the cached answer when there
   is one, false (not cached) when no group has the id, else whether the
   first group of the id lists the application, which is cached. *)
isAppInGroup(appName, groupId) ==
  LET loaded == loadData(localStorage)
      cacheKey == << appName, groupId >>
      found == { i \in 1..Len(loaded) : loaded[i].id = groupId }
      group == loaded[CHOOSE i \in found : \A j \in found : i <= j]
      result == \E j \in 1..Len(group.applications) : group.applications[j] = appName
  IN /\ ~effectDue
     /\ customGroups' = loaded
     /\ groupMatchCache' = IF ~MapHas(groupMatchCache, cacheKey) /\ found # {} THEN MapSet(groupMatchCache, cacheKey, result) ELSE groupMatchCache
     /\ lastOp' = [NoOp EXCEPT !.kind = "isAppInGroup", !.id = groupId, !.app = appName,
                               !.ret = IF MapHas(groupMatchCache, cacheKey) THEN groupMatchCache[cacheKey] ELSE IF found = {} THEN FALSE ELSE result]
     /\ UNCHANGED << localStorage, componentGroups, saveAttempted, effectDue, now, groupMetrics >>
     /\ UNCHANGED << svcVars, dashVars, fetchVars >>

(* handleCreateGroup: setSaveAttempted(true), setGroups of the list with the
   new group, then onGroupCreate, the dashboard's handleGroupChange, which
   makes the service read the groups back from the storage and sets the
   metrics.  The component renders anew afterwards. *)
handleCreateGroup(form) ==
  /\ ~effectDue
  /\ Len(componentGroups) < MaxGroups
  /\ saveAttempted' = TRUE
  /\ componentGroups' = Append(componentGroups, NewGroup(form))
  /\ effectDue' = TRUE
  /\ customGroups' = loadData(localStorage)
  /\ groupMetrics' = getGroupMetrics(loadData(localStorage), allApps)
  /\ lastOp' = [NoOp EXCEPT !.kind = "handleCreateGroup", !.id = now]
  /\ UNCHANGED << localStorage, groupMatchCache, now >>
  /\ UNCHANGED << svcVars, dashVars, fetchVars >>

(* handleUpdateGroup of a group the component lists: onGroupUpdate is called
   while the new list is mapped, setGroups follows. *)
handleUpdateGroup(groupId, form) ==
  /\ ~effectDue
  /\ \E i \in 1..Len(componentGroups) : componentGroups[i].id = groupId
  /\ saveAttempted' = TRUE
  /\ componentGroups' = WithGroupUpdated(componentGroups, groupId, form)
  /\ effectDue' = TRUE
  /\ customGroups' = loadData(localStorage)
  /\ groupMetrics' = getGroupMetrics(loadData(localStorage), allApps)
  /\ lastOp' = [NoOp EXCEPT !.kind = "handleUpdateGroup", !.id = groupId]
  /\ UNCHANGED << localStorage, groupMatchCache, now >>
  /\ UNCHANGED << svcVars, dashVars, fetchVars >>

(* handleDeleteGroup of a group the component lists: setGroups of the list
   without the groups of the id, then onGroupDelete. *)
handleDeleteGroup(groupId) ==
  /\ ~effectDue
  /\ \E i \in 1..Len(componentGroups) : componentGroups[i].id = groupId
  /\ saveAttempted' = TRUE
  /\ componentGroups' = SelectSeq(componentGroups, LAMBDA g : g.id # groupId)
  /\ effectDue' = TRUE
  /\ customGroups' = loadData(localStorage)
  /\ groupMetrics' = getGroupMetrics(loadData(localStorage), allApps)
  /\ lastOp' = [NoOp EXCEPT !.kind = "handleDeleteGroup", !.id = groupId]
  /\ UNCHANGED << localStorage, groupMatchCache, now >>
  /\ UNCHANGED << svcVars, dashVars, fetchVars >>

(* The save effect of the component, run after the render that follows a
   handler (saveAttempted is true by then): saveData of the state groups. *)
SaveEffect(outcome) ==
  LET saved == saveData(localStorage, componentGroups, outcome)
  IN /\ effectDue
     /\ effectDue' = FALSE
     /\ localStorage' = IF saveAttempted THEN saved.storage ELSE localStorage
     /\ lastOp' = [NoOp EXCEPT !.kind = "saveEffect", !.saved = IF ~saveAttempted THEN "none" ELSE IF saved.success THEN "ok" ELSE "failed", !.before = IF saveAttempted /\ ~saved.success THEN localStorage ELSE << >>]
     /\ UNCHANGED << customGroups, groupMatchCache, componentGroups, saveAttempted, now, groupMetrics >>
     /\ UNCHANGED << svcVars, dashVars, fetchVars >>

(* The effects of a render run before the next event is handled. *)
GroupNext ==
  \/ Tick
  \/ \E outcome \in {"stored", "recovered", "lost"} : SaveEffect(outcome)
  \/ \E form \in GroupForms, outcome \in {"stored", "recovered", "lost"} : handleTemplateApplied(form, outcome)
  \/ \E id \in 1..MaxClock, form \in GroupForms, outcome \in {"stored", "recovered", "lost"} : updateGroup(id, form, outcome)
  \/ \E id \in 1..MaxClock, outcome \in {"stored", "recovered", "lost"} : deleteGroup(id, outcome)
  \/ \E appName \in {"Excel"}, groupId \in 1..MaxClock : isAppInGroup(appName, groupId)
  \/ \E form \in GroupForms : handleCreateGroup(form)
  \/ \E groupId \in 1..MaxClock, form \in GroupForms : handleUpdateGroup(groupId, form)
  \/ \E groupId \in 1..MaxClock : handleDeleteGroup(groupId)

SpecGroups == DashInit /\ [][GroupNext]_vars

(***************************************************************************)
(* Properties of the tree                                                  *)
(***************************************************************************)

(* The tree is the one built from the structure as it is now. *)
Built == stage = "built" /\ reconciled # "afterTree"

MetricFields == { "uniqueUsers", "activeUsers", "totalInstallations", "totalCost", "totalUBCCost" }

IsPrefix(key, segments) ==
  Len(key) <= Len(segments) /\ SubSeq(segments, 1, Len(key)) = key

(* The groups of the structure at or beneath a node. *)
GroupsUnder(key) ==
  { i \in 1..Len(structure) : IsPrefix(key, Segments(structure[i].path)) }

RECURSIVE SumOfGroups(_, _)
SumOfGroups(groups, field) ==
  IF groups = {} THEN 0
  ELSE LET i == CHOOSE j \in groups : TRUE
       IN MetricOr0(MetricsOf(structure[i].groupObj), field) + SumOfGroups(groups \ {i}, field)

(* The nodes without children at or beneath a node. *)
LeavesUnder(key) ==
  { k \in DOMAIN tree :
      /\ IsPrefix(key, k)
      /\ ~ \E c \in DOMAIN tree : Len(c) = Len(k) + 1 /\ IsPrefix(k, c) }

RECURSIVE SumOfNodes(_, _)
SumOfNodes(keys, field) ==
  IF keys = {} THEN 0
  ELSE LET k == CHOOSE c \in keys : TRUE
       IN tree[k].metrics[field] + SumOfNodes(keys \ {k}, field)

BusinessUnitKeys == { k \in DOMAIN tree : Len(k) = 1 }

(* The distinct users of the records of a business unit. *)
UsersOfUnit(key) ==
  { flexeraData[i].user :
      i \in { j \in 1..Len(flexeraData) : IsPrefix(key, Segments(GroupKey(flexeraData[j]))) } }

(* C6 as stated: a business-unit node's metrics are the sums of the metrics
   of the leaf nodes beneath it (the node itself when it has no children). *)
C6_UnitIsSumOfLeaves ==
  Built =>
    \A key \in BusinessUnitKeys : \A field \in MetricFields :
      tree[key].metrics[field] = SumOfNodes(LeavesUnder(key), field)

(* C6 amended: a business-unit node's metrics are the plain sums of the
   metrics of all the groups whose path starts with the business unit. *)
C6_UnitIsSumOfItsGroups ==
  Built =>
    \A key \in BusinessUnitKeys : \A field \in MetricFields :
      tree[key].metrics[field] = SumOfGroups(GroupsUnder(key), field)

(* A business unit with several groups whose summed uniqueUsers exceed its
   distinct users. *)
C6_Witness ==
  /\ Built
  /\ \E key \in BusinessUnitKeys :
       /\ Cardinality(GroupsUnder(key)) >= 2
       /\ tree[key].metrics.uniqueUsers = SumOfGroups(GroupsUnder(key), "uniqueUsers")
       /\ tree[key].metrics.uniqueUsers > Cardinality(UsersOfUnit(key))

(* C7: every node of the tree, the intermediate ones included, carries the
   sums of the metrics of the groups at or beneath it. *)
C7_EveryAncestorIsRolledUp ==
  Built =>
    \A key \in DOMAIN tree : \A field \in MetricFields :
      tree[key].metrics[field] = SumOfGroups(GroupsUnder(key), field)

(* A sequence as a multiset. *)
SeqBag(s) ==
  [x \in { s[i] : i \in 1..Len(s) } |-> Cardinality({ i \in 1..Len(s) : s[i] = x })]

ApplicationView(app) == [app EXCEPT !.items = SeqBag(@)]

NodeView(node) ==
  [metrics      |-> node.metrics,
   items        |-> SeqBag(node.items),
   applications |-> SeqBag([i \in 1..Len(node.applications) |->
                              ApplicationView(node.applications[i])])]

(* A tree up to the order of its lists. *)
TreeView(t) == [key \in DOMAIN t |-> NodeView(t[key])]

Reorderings(n) == { p \in [1..n -> 1..n] : \A i, j \in 1..n : p[i] = p[j] => i = j }

(* C8: the tree built from the records in any other order is the same tree
   up to the order of its lists. *)
C8_OrderIndependent ==
  Built =>
    \A p \in Reorderings(Len(flexeraData)) :
      TreeView(buildNestedStructure(ProcessedStructure(
                 [i \in 1..Len(flexeraData) |-> flexeraData[p[i]]]))) = TreeView(tree)

(***************************************************************************)
(* Further properties of the classification service                        *)
(***************************************************************************)

(* findGroupForSoftware with the arguments of the last call, evaluated by
   the service in its current generation with an empty memo. *)
UncachedResult ==
  FindGroupForSoftware(groupDefinitions, vendorMappings, keywordMappings, EmptyMap,
                       last.name, last.keywords, last.vendor).ret

(* C11: what findGroupForSoftware returns is what an evaluation without the
   memo returns for the same arguments under the same taxonomy, whatever
   calls were made before. *)
C11_MemoHitEqualsUncached ==
  Returned => last.ret = UncachedResult

(* The taxonomies a batch can have been classified against: the one the
   service held when the batch began or, when that object has no groups
   list, the one whose maps and memo the service still holds. *)
GenerationsBefore ==
  IF last.before.groupDefinitions.hasGroups
  THEN { last.before.groupDefinitions }
  ELSE Taxonomies

(* The record is what a service over taxonomy d makes of its product. *)
ClassifiedUnder(d, record) ==
  /\ \E f \in FallbackFlags :
       record.groupPath =
         FindGroupForSoftware(d, BuildVendorMappingsOf(d), BuildKeywordMappings, EmptyMap,
                              Trim(record.product), f[1], f[2]).ret
  /\ record.classificationConfidence =
       GetClassificationConfidence(d, BuildVendorMappingsOf(d), BuildKeywordMappings,
                                   Trim(record.product), record.groupPath).ret

(* C12: the records of a batch that loadFlexeraData accepted were all
   classified and scored against one generation of the taxonomy, whatever
   updateDefinitions calls came before the batch. *)
C12_BatchUsesOneGeneration ==
  (last.op = "loadFlexeraData" /\ ~last.threw) =>
    \E d \in GenerationsBefore :
      \A i \in 1..Len(flexeraData) : ClassifiedUnder(d, flexeraData[i])

(* A batch of two rows that were given different paths was accepted after
   an earlier call on the service. *)
C12_Witness ==
  /\ last.op = "loadFlexeraData" /\ ~last.threw
  /\ calls = 2
  /\ Len(flexeraData) = 2
  /\ flexeraData[1].groupPath # flexeraData[2].groupPath
  /\ flexeraData[1].groupPath # Unclassified
  /\ flexeraData[2].groupPath # Unclassified

(***************************************************************************)
(* Properties of the cost reconciliation                                   *)
(***************************************************************************)

(* applyUBCCostsToStructure ran with UBC data loaded. *)
Reconciled == reconciled # "never" /\ ubcData.loaded

(* The keys of the cost index. *)
CostKeys == { CostKey(ubcData.rows[i]) : i \in 1..Len(ubcData.rows) }

(* The items of all the groups of the structure. *)
StructureItems ==
  UNION { { structure[g].groupObj.flexeraData.items[i] :
              i \in 1..Len(structure[g].groupObj.flexeraData.items) } :
          g \in 1..Len(structure) }

HasField(item, field) == field \in DOMAIN item

(* C13: after a reconciliation every item whose product is a key of the
   cost index carries ubcMatchConfidence 1.0, whatever items came before
   it. *)
C13_ExactMatchIsCertain ==
  Reconciled =>
    \A item \in StructureItems :
      item.product \in CostKeys =>
        HasField(item, "ubcMatchConfidence") /\ item.ubcMatchConfidence = << 1, 1 >>

(* The item is the record as it was loaded: no cost field was written. *)
LeftWithoutCost(item) ==
  [k \in (DOMAIN item) \ { "row" } |-> item[k]] \in RecordPool

(* Some key of a fresh cost index scores above 0.3 for the item. *)
HasFuzzyMatch(item) ==
  BestCostMatch(CostScores(getApplicationCosts(ubcData.rows), item.product)) # 0

(* C14 as stated: an item without an exact key gets a confidence strictly
   between 0.3 and 1.0 when some key scores above 0.3, and no cost field
   otherwise. *)
C14_FuzzyStrictlyBelowOne ==
  Reconciled =>
    \A item \in StructureItems :
      item.product \notin CostKeys =>
        IF HasFuzzyMatch(item)
        THEN /\ HasField(item, "ubcMatchConfidence")
             /\ Gt(item.ubcMatchConfidence, << 3, 10 >>)
             /\ Gt(<< 1, 1 >>, item.ubcMatchConfidence)
        ELSE LeftWithoutCost(item)

(* C14 amended: the confidence of a fuzzy match is above 0.3 and at most
   1.0. *)
C14_FuzzyAboveThreshold ==
  Reconciled =>
    \A item \in StructureItems :
      item.product \notin CostKeys =>
        IF HasFuzzyMatch(item)
        THEN /\ HasField(item, "ubcMatchConfidence")
             /\ Gt(item.ubcMatchConfidence, << 3, 10 >>)
             /\ ~Gt(item.ubcMatchConfidence, << 1, 1 >>)
        ELSE LeftWithoutCost(item)

(* One item was matched through the fuzzy path with a confidence below 1.0
   and another found no key. *)
C14_Witness ==
  /\ Reconciled
  /\ \E item \in StructureItems :
       /\ item.product \notin CostKeys
       /\ HasField(item, "ubcMatchConfidence")
       /\ Gt(<< 1, 1 >>, item.ubcMatchConfidence)
  /\ \E item \in StructureItems :
       item.product \notin CostKeys /\ ~HasFuzzyMatch(item) /\ LeftWithoutCost(item)

(* The cost figures of a tree: each node's totalUBCCost and the ubcCost of
   each of its application aggregates by name. *)
CostFigures(t) ==
  [key \in DOMAIN t |->
     [totalUBCCost |-> t[key].metrics.totalUBCCost,
      applications |-> { << t[key].applications[i].name, t[key].applications[i].ubcCost >> :
                           i \in 1..Len(t[key].applications) }]]

(* C15: a tree built before the reconciliation shows the cost figures of
   the tree built after it. *)
C15_ReconciliationCommutes ==
  (stage = "built" /\ Reconciled) =>
    CostFigures(tree) = CostFigures(buildNestedStructure(structure))

(***************************************************************************)
(* Properties of normalizeName                                             *)
(***************************************************************************)

(* The names the service has been given: the name of the last call and the
   products of the loaded rows. *)
NamesGiven ==
  (IF last.op \in { "findGroupForSoftware", "getClassificationConfidence" }
   THEN { last.name } ELSE { })
    \cup { flexeraData[i].product : i \in 1..Len(flexeraData) }

(* normalizeName applied once and twice to the names of the pools. *)
NormalizedOnce == [x \in TableNames \cup RowNames |-> normalizeName(x)]

NormalizedTwice == [x \in TableNames \cup RowNames |-> normalizeName(normalizeName(x))]

(* C16: normalizeName is idempotent, normalizeName(normalizeName(x)) =
   normalizeName(x) for every name x the service is given, and the empty
   (or null) name normalizes to the empty string. *)
C16_NormalizeIsIdempotent ==
  \A x \in NamesGiven :
    /\ NormalizedTwice[x] = NormalizedOnce[x]
    /\ x = "" => NormalizedOnce[x] = ""

(* The service was given a name of punctuation only, one with a doubled
   space and the empty name. *)
C16_Witness ==
  /\ "" \in NamesGiven
  /\ \E x \in NamesGiven : x # "" /\ NormalizedOnce[x] = ""
  /\ \E x \in NamesGiven : NormalizedOnce[x] \notin { x, "" }

(***************************************************************************)
(* Properties of the grouping                                              *)
(***************************************************************************)

(* The structure of the loaded records exists. *)
Processed == stage \in { "processed", "built" }

(* The loaded records of a group. *)
RecordsOf(path) == { i \in 1..Len(flexeraData) : GroupKey(flexeraData[i]) = path }

(* C17: in every group of the structure uniqueUsers is the number of
   distinct user e-mails of the group's records, activeUsers the number of
   distinct e-mails among its records with a non-blank last-used date and
   totalInstallations the number of its records, so that activeUsers <=
   uniqueUsers <= totalInstallations; every loaded record is in the group
   of its path. *)
C17_GroupMetricsCountRecords ==
  Processed =>
    /\ { structure[g].path : g \in 1..Len(structure) }
         = { GroupKey(flexeraData[i]) : i \in 1..Len(flexeraData) }
    /\ \A g \in 1..Len(structure) :
         LET m == structure[g].groupObj.flexeraData.metrics
             recs == RecordsOf(structure[g].path)
         IN /\ m.uniqueUsers = Cardinality({ flexeraData[i].user : i \in recs })
            /\ m.activeUsers
                 = Cardinality({ flexeraData[i].user :
                                   i \in { j \in recs : Trim(flexeraData[j].lastUsed) # "" } })
            /\ m.totalInstallations = Cardinality(recs)
            /\ Len(structure[g].groupObj.flexeraData.items) = Cardinality(recs)
            /\ m.activeUsers <= m.uniqueUsers
            /\ m.uniqueUsers <= m.totalInstallations

(* One group has a user with two installations, another a user who never
   used the product. *)
C17_Witness ==
  /\ Processed
  /\ \E g \in 1..Len(structure) :
       LET m == structure[g].groupObj.flexeraData.metrics
       IN 0 < m.activeUsers /\ m.uniqueUsers < m.totalInstallations
  /\ \E g \in 1..Len(structure) :
       LET m == structure[g].groupObj.flexeraData.metrics
       IN m.activeUsers < m.uniqueUsers

(***************************************************************************)
(* Properties of the applications of a business unit                       *)
(***************************************************************************)

(* The items of one application in one group of the structure. *)
ItemsNamed(g, name) ==
  SelectSeq(structure[g].groupObj.flexeraData.items, LAMBDA item : AppName(item) = name)

(* The aggregate of one application in one group, recounted from the items. *)
GroupAggregate(g, name, field) ==
  LET items == ItemsNamed(g, name)
  IN CASE field = "users"       -> Cardinality({ items[i].user : i \in 1..Len(items) })
       [] field = "activeUsers" -> Cardinality({ items[i].user :
                                                   i \in { j \in 1..Len(items) : Trim(items[j].lastUsed) # "" } })
       [] field = "accesses"    -> Len(items)
       [] field = "ubcCost"     -> SumUbcCost(items, Len(items))

RECURSIVE SumOfAggregates(_, _, _)
SumOfAggregates(groups, name, field) ==
  IF groups = {} THEN 0
  ELSE LET g == CHOOSE j \in groups : TRUE
       IN GroupAggregate(g, name, field) + SumOfAggregates(groups \ {g}, name, field)

(* The items of one application in the groups of a unit, in the order of
   the groups. *)
RECURSIVE ItemsOfUnit(_, _, _)
ItemsOfUnit(key, name, n) ==
  IF n = 0 THEN << >>
  ELSE ItemsOfUnit(key, name, n - 1)
         \o (IF n \in GroupsUnder(key) THEN ItemsNamed(n, name) ELSE << >>)

(* The application names of the records of a unit. *)
NamesOfUnit(key) ==
  { AppName(flexeraData[i]) :
      i \in { j \in 1..Len(flexeraData) : IsPrefix(key, Segments(GroupKey(flexeraData[j]))) } }

RecordsOfApplication(key, name) ==
  { i \in 1..Len(flexeraData) :
      IsPrefix(key, Segments(GroupKey(flexeraData[i]))) /\ AppName(flexeraData[i]) = name }

(* C18: the applications of a business-unit node hold one entry for each
   application name of the unit; its users, activeUsers, accesses and
   ubcCost are the sums of the aggregates of that name over the groups of
   the unit, its items their items one after the other, and accesses the
   number of records of the application in the unit. *)
C18_UnitApplicationsAreMerged ==
  Built =>
    \A key \in BusinessUnitKeys :
      LET apps == tree[key].applications
      IN /\ \A i, j \in 1..Len(apps) : apps[i].name = apps[j].name => i = j
         /\ { apps[i].name : i \in 1..Len(apps) } = NamesOfUnit(key)
         /\ \A i \in 1..Len(apps) :
              /\ \A field \in { "users", "activeUsers", "accesses", "ubcCost" } :
                   apps[i][field] = SumOfAggregates(GroupsUnder(key), apps[i].name, field)
              /\ apps[i].items = ItemsOfUnit(key, apps[i].name, Len(structure))
              /\ apps[i].accesses = Cardinality(RecordsOfApplication(key, apps[i].name))

(* An application has records in two groups of one unit, and its entry at
   the unit counts a user once for each group. *)
C18_Witness ==
  /\ Built
  /\ \E key \in BusinessUnitKeys : \E i \in 1..Len(tree[key].applications) :
       /\ Cardinality({ g \in GroupsUnder(key) :
                          ItemsNamed(g, tree[key].applications[i].name) # << >> }) >= 2
       /\ tree[key].applications[i].accesses >= 2

(***************************************************************************)
(* Properties of the fuzzy tier                                            *)
(***************************************************************************)

(* The (path, member) pairs of each taxonomy and, for each name of the
   pool, the score of each pair and whether one of the two normalised
   strings contains the other. *)
PairsTable == [d \in Taxonomies |-> MemberPairs(d.groups, "")]

ScoreTable ==
  [d \in Taxonomies |->
     [n \in TableNames |->
        [i \in 1..Len(PairsTable[d]) |->
           CalculateSimilarityScore(normalizeName(n), normalizeName(PairsTable[d][i].member))]]]

ContainedTable ==
  [d \in Taxonomies |->
     [n \in TableNames |->
        [i \in 1..Len(PairsTable[d]) |->
           \/ Includes(normalizeName(n), normalizeName(PairsTable[d][i].member))
           \/ Includes(normalizeName(PairsTable[d][i].member), normalizeName(n))]]]

(* The same for the taxonomy in force and the name of the last call. *)
LastPairs == PairsTable[groupDefinitions]

PairScore(i) == ScoreTable[groupDefinitions][last.name][i]

Contained(i) == ContainedTable[groupDefinitions][last.name][i]

(* The fuzzy tier answers with the path of a pair of the set that scores
   above 0.5 and no lower than any other pair of the set, and with null
   when no pair of the set scores above 0.5. *)
FuzzyAnswersBestOf(scoredPairs) ==
  IF LastTiers.fuzzy.some
  THEN \E i \in scoredPairs :
         /\ LastPairs[i].path = LastTiers.fuzzy.val
         /\ Gt(PairScore(i), << 1, 2 >>)
         /\ \A j \in scoredPairs : ~Gt(PairScore(j), PairScore(i))
  ELSE \A j \in scoredPairs : ~Gt(PairScore(j), << 1, 2 >>)

(* C19 as stated: every pair is scored, max(Jaccard, 0.7) with containment
   and the Jaccard similarity without, and the tier returns the path of the
   highest-scoring pair if and only if that score exceeds 0.5. *)
C19_EveryPairIsScored ==
  Returned => FuzzyAnswersBestOf(1..Len(LastPairs))

(* C19 amended: only the pairs in which one normalised string contains the
   other are scored, and the tier returns the path of the highest-scoring
   one of them, the first in listing order, if and only if that score
   exceeds 0.5. *)
C19_ContainedPairsAreScored ==
  Returned =>
    /\ FuzzyAnswersBestOf({ i \in 1..Len(LastPairs) : Contained(i) })
    /\ LastTiers.fuzzy.some =>
         LET best == { i \in 1..Len(LastPairs) :
                         /\ Contained(i)
                         /\ Gt(PairScore(i), << 1, 2 >>)
                         /\ \A j \in 1..Len(LastPairs) :
                              Contained(j) => ~Gt(PairScore(j), PairScore(i)) }
         IN LastTiers.fuzzy.val = LastPairs[CHOOSE i \in best : \A j \in best : i <= j].path

(* A name with a pair of Jaccard similarity above 0.5 and no containment
   got no fuzzy answer. *)
C19_Witness ==
  /\ Returned
  /\ ~LastTiers.fuzzy.some
  /\ \E i \in 1..Len(LastPairs) : ~Contained(i) /\ Gt(PairScore(i), << 1, 2 >>)

(***************************************************************************)
(* Properties of the keyword tier's confidence                             *)
(***************************************************************************)

(* The score of the keyword that wins _findKeywordMatch for a name. *)
WinningKeywordScore(normalizedSoftware) ==
  LET scored == KeywordScored(KeywordPairs(keywordMappings, 1), normalizedSoftware)
  IN scored[BestIndex(scored)].score

(* The keyword tier produced the path of the record: the exact and the
   fuzzy tier found nothing for its product. *)
KeywordProduced(record) ==
  LET t == TiersOf(groupDefinitions, keywordMappings, Trim(record.product))
  IN ~Truthy(t.exact) /\ ~Truthy(t.fuzzy) /\ Truthy(t.keyword)
       /\ record.groupPath = t.keyword.val

(* C20: a record whose path the keyword tier produced has the confidence
   min(0.7, s), s being the score of the winning keyword. *)
C20_KeywordConfidenceIsCappedScore ==
  (last.op = "loadFlexeraData" /\ ~last.threw /\ groupDefinitions.hasGroups) =>
    \A i \in 1..Len(flexeraData) :
      KeywordProduced(flexeraData[i]) =>
        flexeraData[i].classificationConfidence
          = MathMin(<< 7, 10 >>, WinningKeywordScore(normalizeName(Trim(flexeraData[i].product))))

(***************************************************************************)
(* Properties of the tree: conservation, node items and the sub-group      *)
(* application lists                                                       *)
(***************************************************************************)

(* The business unit of a loaded record: the first segment of its path. *)
UnitOf(record) == Segments(GroupKey(record))[1]

RECURSIVE SumOfInstallations(_)
SumOfInstallations(keys) ==
  IF keys = {} THEN 0
  ELSE LET key == CHOOSE k \in keys : TRUE
       IN tree[key].metrics.totalInstallations + SumOfInstallations(keys \ {key})

(* C22: the totalInstallations of the top-level nodes add up to the number
   of loaded records, and each record is counted under the one top-level
   node of its path's first segment. *)
C22_RecordsAreConserved ==
  Built =>
    /\ SumOfInstallations(BusinessUnitKeys) = Len(flexeraData)
    /\ \A i \in 1..Len(flexeraData) : << UnitOf(flexeraData[i]) >> \in BusinessUnitKeys
    /\ \A key \in BusinessUnitKeys :
         tree[key].metrics.totalInstallations
           = Cardinality({ i \in 1..Len(flexeraData) : UnitOf(flexeraData[i]) = key[1] })

(* Records of two business units, one of them with a group at the unit's
   own path and a group beneath it. *)
C22_Witness ==
  /\ Built
  /\ Cardinality(BusinessUnitKeys) >= 2
  /\ \E key \in BusinessUnitKeys :
       /\ \E g \in GroupsUnder(key) : Len(Segments(structure[g].path)) = 1
       /\ \E g \in GroupsUnder(key) : Len(Segments(structure[g].path)) > 1

(* The groups of the structure whose path is that of a node. *)
GroupsAt(key) == { g \in 1..Len(structure) : Segments(structure[g].path) = key }

(* C23: each application entry of a node beneath a business unit counts the
   records of that node's group only. *)
C23_SubGroupApplicationsUntouched ==
  Built =>
    \A key \in DOMAIN tree : \A g \in GroupsAt(key) :
      Len(key) > 1 =>
        \A i \in 1..Len(tree[key].applications) :
          LET app == tree[key].applications[i]
          IN /\ app.items = ItemsNamed(g, app.name)
             /\ \A field \in { "users", "activeUsers", "accesses", "ubcCost" } :
                  app[field] = GroupAggregate(g, app.name, field)

(* C24: the node of a group path holds that group's records in its items
   list. *)
C24_NodeHoldsItsRecords ==
  Built =>
    \A key \in DOMAIN tree : \A g \in GroupsAt(key) :
      tree[key].items = structure[g].groupObj.flexeraData.items

(***************************************************************************)
(* Names that normalise to the empty string                                *)
(***************************************************************************)

(* C25: a non-empty name whose normalised form is empty is classified as
   the sentinel, with confidence 0. *)
C25_EmptyNormalFormIsUnclassified ==
  (Returned /\ last.name # "" /\ NormalizedOnce[last.name] = "") =>
    /\ last.ret = Unclassified
    /\ IsZero(ConfidenceNow(last.name, last.ret))

(***************************************************************************)
(* The cached inventory of a reporting month                               *)
(***************************************************************************)

(* The calls that went to the pages and received the last of them: they
   returned, or only await the sending of their last rows. *)
CompletedFetches ==
  { c \in 1..MaxFetches :
      /\ ~fetches[c].fromCache
      /\ \/ fetches[c].pc \in {"returned", "awaitRemainderSent"}
         \/ fetches[c].pc = "awaitChunkSent" /\ ~fetches[c].nextPageUrl }

(* C21: the data fetchAllFlexeraData returns, from the pages or from the
   cache, is the processed rows of all the pages of one completed fetch. *)
C21_ReturnsOneCompleteFetch ==
  \A c \in 1..MaxFetches :
    (fetches[c].pc = "returned" /\ fetches[c].ret.some) =>
      \E d \in CompletedFetches : fetches[c].ret.val = processFlexeraData(fetches[d].received)

(***************************************************************************)
(* The stored application groups                                           *)
(***************************************************************************)

(* What getAllGroups returns: the list read back from the storage. *)
StoredGroups == loadData(localStorage)

(* C26: a saveData call that returns false leaves the value stored under the
   key as it was, so after a failed createGroup, updateGroup or deleteGroup
   (or a failed save of the component) the stored list and what getAllGroups
   returns are those of before the call. *)
C26_FailedSaveKeepsStoredValue ==
  lastOp.saved = "failed" => /\ localStorage = lastOp.before
                             /\ StoredGroups = loadData(lastOp.before)

(* Whether the first stored group of the id lists the application. *)
StoredGroupLists(appName, groupId) ==
  \E i \in 1..Len(StoredGroups) :
    /\ StoredGroups[i].id = groupId
    /\ \A j \in 1..(i - 1) : StoredGroups[j].id # groupId
    /\ \E k \in 1..Len(StoredGroups[i].applications) : StoredGroups[i].applications[k] = appName

(* C27: isAppInGroup(appName, groupId) returns true exactly when the group
   stored under groupId lists appName, whatever creations, updates,
   deletions, failed saves and writes of the component came before. *)
C27_MembershipAnswerIsCurrent ==
  lastOp.kind = "isAppInGroup" => (lastOp.ret <=> StoredGroupLists(lastOp.app, lastOp.id))

(* C28: the stored groups have pairwise distinct ids. *)
C28_StoredIdsAreDistinct ==
  \A i, j \in 1..Len(StoredGroups) : StoredGroups[i].id = StoredGroups[j].id => i = j

(* The ids of the groups in the metrics of the dashboard. *)
MetricIds == { groupMetrics[i].id : i \in 1..Len(groupMetrics) }

(* C29: after the component created, updated or deleted a group, the metrics
   handleGroupChange computed have an entry for the group created, have the
   new name of the group updated, and have no entry for the group deleted. *)
C29_MetricsReflectTheChange ==
  /\ lastOp.kind = "handleCreateGroup" => lastOp.id \in MetricIds
  /\ lastOp.kind = "handleDeleteGroup" => lastOp.id \notin MetricIds
  /\ lastOp.kind = "handleUpdateGroup" =>
       \A i \in 1..Len(componentGroups) : componentGroups[i].id = lastOp.id =>
         \E k \in 1..Len(groupMetrics) : groupMetrics[k].id = lastOp.id /\ groupMetrics[k].name = componentGroups[i].name
====
